---- MODULE Spec2Model ----
(***************************************************************************)
(* otel-hooks hook engine (src/src/otel_hooks/hook.py): the incremental    *)
(* transcript reader, the turn assembler, the lock-protected session state *)
(* store and main(), the per-invocation orchestration.                     *)
(* After them: extract_text and truncate_text, the payload the sinks       *)
(* (providers/) build from a Turn, and register_hook / unregister_hook of  *)
(* the tool configs (tools/).                                              *)
(*                                                                         *)
(* Text is modelled at two levels, as in the code: the transcript file is  *)
(* a sequence of bytes, read_new_jsonl decodes the bytes it reads with     *)
(* errors="replace" and works on characters from there on.                 *)
(***************************************************************************)
EXTENDS Integers, Sequences, FiniteSets, TLC

(***************************************************************************)
(* Bounds of the model.                                                    *)
(***************************************************************************)
\* Longest transcript, in bytes, of the reader specification.
MaxBytes == 4
\* Longest message list handed to build_turns in the assembler specification.
MaxMsgs == 4
\* Longest transcript, in lines, of the hook specification.
MaxLines == 4

(***************************************************************************)
(* Bytes and characters.  "LF" is the newline, "SP" a blank, "C3" "A9" the *)
(* two bytes of the UTF-8 encoding of one non-ASCII character (named       *)
(* "E9"); every other byte is ASCII and decodes to the character of the    *)
(* same name.  "FFFD" is the replacement character.                        *)
(***************************************************************************)
LF == "LF"

RECURSIVE Decode(_)
\* bytes.decode("utf-8", errors="replace")
Decode(b) ==
    IF b = <<>> THEN <<>>
    ELSE IF b[1] = "C3"
         THEN IF Len(b) >= 2 /\ b[2] = "A9"
              THEN <<"E9">> \o Decode(SubSeq(b, 3, Len(b)))
              ELSE <<"FFFD">> \o Decode(Tail(b))
         ELSE IF b[1] = "A9"
              THEN <<"FFFD">> \o Decode(Tail(b))
              ELSE <<b[1]>> \o Decode(Tail(b))

\* Index of the first newline of s, 0 when there is none.
FirstLF(s) ==
    IF \E i \in 1..Len(s) : s[i] = LF
    THEN CHOOSE i \in 1..Len(s) : s[i] = LF /\ \A j \in 1..(i - 1) : s[j] # LF
    ELSE 0

RECURSIVE Split(_)
\* str.split("\n"): always at least one fragment, the last one unterminated.
Split(s) ==
    IF FirstLF(s) = 0 THEN <<s>>
    ELSE <<SubSeq(s, 1, FirstLF(s) - 1)>> \o Split(SubSeq(s, FirstLF(s) + 1, Len(s)))

RECURSIVE Strip(_)
\* str.strip()
Strip(s) ==
    IF s = <<>> THEN s
    ELSE IF s[1] \in {"SP", LF} THEN Strip(Tail(s))
    ELSE IF s[Len(s)] \in {"SP", LF} THEN Strip(SubSeq(s, 1, Len(s) - 1))
    ELSE s

(***************************************************************************)
(* Messages.  A parsed line is a JSON value; json = "object" is a dict,    *)
(* json = "number" a value that is valid JSON and no dict.  The fields of  *)
(* an object are the ones the hook reads: type, message.role, message.id   *)
(* and message.content.                                                    *)
(***************************************************************************)
StrContent(t) == [kind |-> "str", text |-> t, items |-> <<>>]
ListContent(xs) == [kind |-> "list", text |-> "", items |-> xs]
Frag(ty, tid, c) == [type |-> ty, tool_use_id |-> tid, content |-> c]
Msg(ty, role, id, content) ==
    [json |-> "object", type |-> ty, role |-> role, id |-> id, content |-> content]
NonDict == [json |-> "number"]

\* What one transcript line stands for: "u" is the JSON text of a user
\* message, "a" of an assistant message, a run of "5" is a JSON number.
UserLine == Msg("user", "user", "", StrContent("q"))
AssistantLine == Msg("assistant", "assistant", "", StrContent("r"))

\* json.loads(line): <<TRUE, value>>, or <<FALSE, _>> when it raises.
JsonLoads(line) ==
    IF line = <<"u">> THEN <<TRUE, UserLine>>
    ELSE IF line = <<"a">> THEN <<TRUE, AssistantLine>>
    ELSE IF line # <<>> /\ \A i \in 1..Len(line) : line[i] = "5" THEN <<TRUE, NonDict>>
    ELSE <<FALSE, NonDict>>

get_role(msg) ==
    IF msg.type \in {"user", "assistant"} THEN msg.type
    ELSE IF msg.role \in {"user", "assistant"} THEN msg.role
    ELSE "None"

iter_tool_results(content) ==
    IF content.kind = "list"
    THEN SelectSeq(content.items, LAMBDA x : x.type = "tool_result")
    ELSE <<>>

is_tool_result(msg) ==
    /\ get_role(msg) = "user"
    /\ msg.content.kind = "list"
    /\ \E i \in 1..Len(msg.content.items) : msg.content.items[i].type = "tool_result"

\* message.id when it is a non-empty string, else None (written "").
get_message_id(msg) == msg.id

(***************************************************************************)
(* SessionState and the incremental reader.                                *)
(***************************************************************************)
SessionState(o, b, t) == [offset |-> o, buffer |-> b, turn_count |-> t]

RECURSIVE ParseLines_StopsAtBadLine(_)
\* The loop with `break` in place of `continue` in the except clause.
ParseLines_StopsAtBadLine(lines) ==
    IF lines = <<>> THEN <<>>
    ELSE LET line == Strip(Head(lines))
             rest == ParseLines_StopsAtBadLine(Tail(lines))
         IN IF line = <<>> THEN rest
            ELSE IF JsonLoads(line)[1] THEN <<JsonLoads(line)[2]>> \o rest
            ELSE <<>>

RECURSIVE ParseLines(_)
\* The loop over lines[:-1]: strip, skip blanks, json.loads, drop what raises.
ParseLines(lines) ==
    IF lines = <<>> THEN <<>>
    ELSE LET line == Strip(Head(lines))
             rest == ParseLines(Tail(lines))
         IN IF line = <<>> THEN rest
            ELSE IF JsonLoads(line)[1] THEN <<JsonLoads(line)[2]>> \o rest
            ELSE rest

\* offset = len(chunk): the bytes of this read alone.
ReaderAdvance_ChunkLength(ss, lines, new_offset) ==
    [ss EXCEPT !.buffer = lines[Len(lines)], !.offset = new_offset - ss.offset]

\* The (offset, buffer) the reader leaves behind for a non-empty chunk.
ReaderAdvance(ss, lines, new_offset) ==
    [ss EXCEPT !.buffer = lines[Len(lines)], !.offset = new_offset]

\* read_new_jsonl that drops the buffered partial line when a call finds no
\* new bytes.
read_new_jsonl_DropsBuffer(file, readable, ss) ==
    LET chunk == SubSeq(file, ss.offset + 1, Len(file))
        new_offset == IF ss.offset > Len(file) THEN ss.offset ELSE Len(file)
        combined == ss.buffer \o Decode(chunk)
        lines == Split(combined)
    IN IF ~readable \/ chunk = <<>>
       THEN [msgs |-> <<>>, ss |-> [ss EXCEPT !.buffer = <<>>], lines |-> <<>>]
       ELSE [msgs |-> ParseLines(SubSeq(lines, 1, Len(lines) - 1)),
             ss |-> ReaderAdvance(ss, lines, new_offset),
             lines |-> SubSeq(lines, 1, Len(lines) - 1)]

\* read_new_jsonl on a readable file holding `file`: msgs, the new state and
\* `lines`, the complete lines this call handed on (lines[:-1]).
read_new_jsonl(file, readable, ss) ==
    LET chunk == SubSeq(file, ss.offset + 1, Len(file))
        new_offset == IF ss.offset > Len(file) THEN ss.offset ELSE Len(file)
        combined == ss.buffer \o Decode(chunk)
        lines == Split(combined)
    IN IF ~readable \/ chunk = <<>>
       THEN [msgs |-> <<>>, ss |-> ss, lines |-> <<>>]
       ELSE [msgs |-> ParseLines(SubSeq(lines, 1, Len(lines) - 1)),
             ss |-> ReaderAdvance(ss, lines, new_offset),
             lines |-> SubSeq(lines, 1, Len(lines) - 1)]

(***************************************************************************)
(* Turn assembly.  A dict is a function; its keys are its DOMAIN.          *)
(***************************************************************************)
EmptyDict == [k \in {} |-> k]
DictSet(d, k, v) == [x \in (DOMAIN d) \cup {k} |-> IF x = k THEN v ELSE d[x]]

Turn(u, as, tr) == [user_msg |-> u, assistant_msgs |-> as, tool_results_by_id |-> tr]

\* f"noid:{n}"
NoIdKey(n) == <<"noid:0", "noid:1", "noid:2", "noid:3", "noid:4", "noid:5", "noid:6">>[n + 1]

\* The locals of build_turns before the loop; current_user is None (<<>>)
\* or the one open user message.
BuildInit ==
    [turns |-> <<>>, current_user |-> <<>>, assistant_order |-> <<>>,
     assistant_latest |-> EmptyDict, tool_results_by_id |-> EmptyDict]

RECURSIVE AssistantsOf(_, _)
\* [assistant_latest[mid] for mid in assistant_order if mid in assistant_latest]
AssistantsOf(order, latest) ==
    IF order = <<>> THEN <<>>
    ELSE (IF Head(order) \in DOMAIN latest THEN <<latest[Head(order)]>> ELSE <<>>)
         \o AssistantsOf(Tail(order), latest)

\* flush_turn without its `if not assistant_latest: return`.
flush_turn_NoReplyCheck(st) ==
    IF st.current_user = <<>> THEN st
    ELSE [st EXCEPT !.turns = Append(@, Turn(st.current_user[1],
                                  AssistantsOf(st.assistant_order, st.assistant_latest),
                                  st.tool_results_by_id))]

flush_turn(st) ==
    IF st.current_user = <<>> THEN st
    ELSE IF DOMAIN st.assistant_latest = {} THEN st
    ELSE [st EXCEPT !.turns = Append(@, Turn(st.current_user[1],
                                  AssistantsOf(st.assistant_order, st.assistant_latest),
                                  st.tool_results_by_id))]

RECURSIVE StoreResults_FirstWins(_, _)
\* tool_results_by_id.setdefault(str(tid), content): the first result stays.
StoreResults_FirstWins(d, trs) ==
    IF trs = <<>> THEN d
    ELSE StoreResults_FirstWins(IF Head(trs).tool_use_id # ""
                                   /\ Head(trs).tool_use_id \notin DOMAIN d
                                THEN DictSet(d, Head(trs).tool_use_id, Head(trs).content)
                                ELSE d,
                                Tail(trs))

RECURSIVE StoreResults(_, _)
\* for tr in iter_tool_results(...): if tid: tool_results_by_id[str(tid)] = content
StoreResults(d, trs) ==
    IF trs = <<>> THEN d
    ELSE StoreResults(IF Head(trs).tool_use_id # ""
                      THEN DictSet(d, Head(trs).tool_use_id, Head(trs).content)
                      ELSE d,
                      Tail(trs))

\* Key under which an assistant message is stored.
AssistantKey(st, msg) ==
    IF get_message_id(msg) # "" THEN get_message_id(msg)
    ELSE NoIdKey(Len(st.assistant_order))

\* The loop body with the call of flush_turn() left out of the user branch.
BuildStep_NoFlush(st, msg) ==
    IF is_tool_result(msg)
    THEN [st EXCEPT !.tool_results_by_id = StoreResults(@, iter_tool_results(msg.content))]
    ELSE IF get_role(msg) = "user"
    THEN [st EXCEPT !.current_user = <<msg>>, !.assistant_order = <<>>,
                    !.assistant_latest = EmptyDict, !.tool_results_by_id = EmptyDict]
    ELSE IF get_role(msg) = "assistant"
    THEN IF st.current_user = <<>> THEN st
         ELSE [st EXCEPT
                 !.assistant_order = IF AssistantKey(st, msg) \in DOMAIN st.assistant_latest
                                     THEN @ ELSE Append(@, AssistantKey(st, msg)),
                 !.assistant_latest = DictSet(@, AssistantKey(st, msg), msg)]
    ELSE st

\* The loop body whose user branch leaves tool_results_by_id as it is.
BuildStep_KeepsTable(st, msg) ==
    IF is_tool_result(msg)
    THEN [st EXCEPT !.tool_results_by_id = StoreResults(@, iter_tool_results(msg.content))]
    ELSE IF get_role(msg) = "user"
    THEN [flush_turn(st) EXCEPT !.current_user = <<msg>>, !.assistant_order = <<>>,
                                !.assistant_latest = EmptyDict]
    ELSE IF get_role(msg) = "assistant"
    THEN IF st.current_user = <<>> THEN st
         ELSE [st EXCEPT
                 !.assistant_order = IF AssistantKey(st, msg) \in DOMAIN st.assistant_latest
                                     THEN @ ELSE Append(@, AssistantKey(st, msg)),
                 !.assistant_latest = DictSet(@, AssistantKey(st, msg), msg)]
    ELSE st

\* The loop body without its tool-result branch: a tool-result message is
\* taken for the user message it is.
BuildStep_ResultAsPrompt(st, msg) ==
    IF get_role(msg) = "user"
    THEN [flush_turn(st) EXCEPT !.current_user = <<msg>>, !.assistant_order = <<>>,
                                !.assistant_latest = EmptyDict,
                                !.tool_results_by_id = EmptyDict]
    ELSE IF get_role(msg) = "assistant"
    THEN IF st.current_user = <<>> THEN st
         ELSE [st EXCEPT
                 !.assistant_order = IF AssistantKey(st, msg) \in DOMAIN st.assistant_latest
                                     THEN @ ELSE Append(@, AssistantKey(st, msg)),
                 !.assistant_latest = DictSet(@, AssistantKey(st, msg), msg)]
    ELSE st

\* One pass of the loop body of build_turns over a dict message.
BuildStep(st, msg) ==
    IF is_tool_result(msg)
    THEN [st EXCEPT !.tool_results_by_id = StoreResults(@, iter_tool_results(msg.content))]
    ELSE IF get_role(msg) = "user"
    THEN [flush_turn(st) EXCEPT !.current_user = <<msg>>, !.assistant_order = <<>>,
                                !.assistant_latest = EmptyDict,
                                !.tool_results_by_id = EmptyDict]
    ELSE IF get_role(msg) = "assistant"
    THEN IF st.current_user = <<>> THEN st
         ELSE [st EXCEPT
                 !.assistant_order = IF AssistantKey(st, msg) \in DOMAIN st.assistant_latest
                                     THEN @ ELSE Append(@, AssistantKey(st, msg)),
                 !.assistant_latest = DictSet(@, AssistantKey(st, msg), msg)]
    ELSE st

RECURSIVE BuildLoop(_, _)
BuildLoop(st, msgs) ==
    IF msgs = <<>> THEN st ELSE BuildLoop(BuildStep(st, Head(msgs)), Tail(msgs))

\* build_turns raises (AttributeError in get_role) on a message that is no dict.
BuildRaises(msgs) == \E i \in 1..Len(msgs) : msgs[i].json # "object"

build_turns(msgs) == flush_turn(BuildLoop(BuildInit, msgs)).turns

(***************************************************************************)
(* State.                                                                  *)
(*                                                                         *)
(* rd_*: the reader on its own, called again and again on a growing file.  *)
(* bt_*: build_turns on one message list, one loop pass per step.          *)
(* The rest: hook invocations (main) of the processes Procs on one         *)
(* session, sharing the state file, the state lock and the transcript.     *)
(***************************************************************************)
VARIABLES
    rd_file,        \* the transcript of the reader specification, bytes
    rd_ss,          \* the SessionState carried from call to call
    rd_delivered,   \* every complete line handed on so far, in order
    bt_msgs,        \* the argument of build_turns
    bt_i,           \* messages consumed so far
    bt_st,          \* the locals of build_turns
    bt_prev,        \* the locals before the last loop pass
    bt_out,         \* the returned list of turns
    bt_pc,          \* "idle" | "loop" | "done"
    transcript,     \* the transcript file of the session, bytes
    stateFile,      \* STATE_FILE: dict key -> record; empty when absent
    stateShape,     \* "dict", or "array" when the state file holds JSON that is no object
    lockHolder,     \* the process holding the flock on LOCK_FILE, or "none"
    started,        \* invocations started so far
    pc,             \* where each process is in main()
    rc,             \* how main() ended: "running" | "0" | "exception"
    provider,       \* main's `provider`: "none" | "live" | "shutdown"
    session,        \* <<session_id, transcript_path>> of the payload
    hasLock,        \* whether the process's FileLock holds the flock
    gstate,         \* main's `state`: the dict load_state returned
    ss,             \* main's `ss`
    turns,          \* main's `turns`
    emitted,        \* main's `emitted`
    ret,            \* how the with-block is left: "normal" | "early" | "raised"
    sinkLog,        \* the calls made on the provider, in order
    loaded,         \* the SessionState as load_session_state returned it
    saveStatus,     \* outcome of the invocation's save_state: "none" | "ok" | "failed"
    issued,         \* turn numbers passed to emit_turn by earlier invocations
    collision,      \* a turn number was passed to emit_turn by two invocations
    everUnlocked,   \* some invocation entered its critical section unlocked
    everSaveFailed, \* some save_state failed
    dispatched,     \* the turns passed to emit_turn, over all invocations, in order
    sv_inode,       \* the files of the state directory: inode -> [data, whole]
    sv_state,       \* the inode STATE_FILE names
    sv_tmp,         \* the inode the ".tmp" path names, 0 when there is none
    sv_fd,          \* per process: the inode it has open for writing, 0 for none
    sv_pc,          \* per process: its position in save_state
    sv_saves,       \* save_state calls started
    tt_s,           \* truncate_text: the argument s
    tt_max_chars,   \* truncate_text: the argument max_chars
    tt_ret,         \* what the call returned or raised
    tt_again,       \* what a second call with the same arguments returned or raised
    tt_pc,          \* "idle" | "called" | "repeated"
    tl_tool,        \* the tool config in use: "none" | "claude" | "kiro" | "copilot"
    tl_start,       \* the settings as load_settings returned them
    tl_prev,        \* the settings before the last operation
    tl_settings,    \* the settings now
    tl_ops,         \* the operations applied, in order
    ex_content,     \* extract_text: the argument
    ex_ret,         \* extract_text: the text returned
    ex_pc,          \* "idle" | "called" | "done"
    sk_turn,        \* emit_turn: the Turn passed to the sink
    sk_payload,     \* emit_turn: the payload built from it
    sk_pc,          \* "idle" | "built" | "returned"
    cl_files,       \* the settings file of each scope
    cl_start,       \* the project settings before the first command
    cl_cmds,        \* the CLI commands run, in order
    cl_pc           \* "idle" | "ready"

rdVars == <<rd_file, rd_ss, rd_delivered>>
btVars == <<bt_msgs, bt_i, bt_st, bt_prev, bt_out, bt_pc>>
sharedVars == <<transcript, stateFile, stateShape, lockHolder, started>>
procVars == <<pc, rc, provider, session, hasLock, gstate, ss, turns, emitted, ret,
              sinkLog, loaded, saveStatus>>
histVars == <<issued, collision, everUnlocked, everSaveFailed, dispatched>>
hookVars == <<sharedVars, procVars, histVars>>
svVars == <<sv_inode, sv_state, sv_tmp, sv_fd, sv_pc, sv_saves>>
ttVars == <<tt_s, tt_max_chars, tt_ret, tt_again, tt_pc>>
tlVars == <<tl_tool, tl_start, tl_prev, tl_settings, tl_ops>>
exVars == <<ex_content, ex_ret, ex_pc>>
skVars == <<sk_turn, sk_payload, sk_pc>>
clVars == <<cl_files, cl_start, cl_cmds, cl_pc>>
fnVars == <<ttVars, tlVars, exVars, skVars, clVars>>
vars == <<rdVars, btVars, hookVars, svVars, fnVars>>

Procs == {"p1", "p2"}

Init ==
    /\ rd_file = <<>>
    /\ rd_ss = SessionState(0, <<>>, 0)
    /\ rd_delivered = <<>>
    /\ bt_msgs = <<>>
    /\ bt_i = 0
    /\ bt_st = BuildInit
    /\ bt_prev = BuildInit
    /\ bt_out = <<>>
    /\ bt_pc = "idle"
    /\ transcript = <<>>
    /\ stateFile = EmptyDict
    /\ stateShape = "dict"
    /\ sv_inode = [i \in {1} |-> [data |-> "old", whole |-> TRUE]]
    /\ sv_state = 1
    /\ sv_tmp = 0
    /\ sv_fd = [p \in Procs |-> 0]
    /\ sv_pc = [p \in Procs |-> "idle"]
    /\ sv_saves = 0
    /\ tt_s = <<>>
    /\ tt_max_chars = 0
    /\ tt_ret = <<>>
    /\ tt_again = <<>>
    /\ tt_pc = "idle"
    /\ tl_tool = "none"
    /\ tl_start = EmptyDict
    /\ tl_prev = EmptyDict
    /\ tl_settings = EmptyDict
    /\ tl_ops = <<>>
    /\ ex_content = [kind |-> "null"]
    /\ ex_ret = <<>>
    /\ ex_pc = "idle"
    /\ sk_turn = <<>>
    /\ sk_payload = <<>>
    /\ sk_pc = "idle"
    /\ cl_files = [scope \in {"global", "project", "local"} |-> [k \in {} |-> k]]
    /\ cl_start = [k \in {} |-> k]
    /\ cl_cmds = <<>>
    /\ cl_pc = "idle"
    /\ lockHolder = "none"
    /\ started = 0
    /\ pc = [p \in Procs |-> "idle"]
    /\ rc = [p \in Procs |-> "running"]
    /\ provider = [p \in Procs |-> "none"]
    /\ session = [p \in Procs |-> <<"", "">>]
    /\ hasLock = [p \in Procs |-> FALSE]
    /\ gstate = [p \in Procs |-> EmptyDict]
    /\ ss = [p \in Procs |-> SessionState(0, <<>>, 0)]
    /\ turns = [p \in Procs |-> <<>>]
    /\ emitted = [p \in Procs |-> 0]
    /\ ret = [p \in Procs |-> "normal"]
    /\ sinkLog = [p \in Procs |-> <<>>]
    /\ loaded = [p \in Procs |-> SessionState(0, <<>>, 0)]
    /\ saveStatus = [p \in Procs |-> "none"]
    /\ issued = {}
    /\ collision = FALSE
    /\ everUnlocked = FALSE
    /\ everSaveFailed = FALSE
    /\ dispatched = <<>>

(***************************************************************************)
(* The reader specification: a writer appends bytes of well-formed UTF-8   *)
(* text one at a time (it may flush in the middle of a line or of a        *)
(* character), and read_new_jsonl is called at any moment with the         *)
(* SessionState the previous call returned.                                *)
(***************************************************************************)
ReaderBytes == {"u", "SP", LF, "C3", "A9"}

\* b may follow `file` in well-formed UTF-8.
Utf8Next(file, b) ==
    IF file # <<>> /\ file[Len(file)] = "C3" THEN b = "A9" ELSE b # "A9"

RdAppend(b) ==
    /\ Len(rd_file) < MaxBytes
    /\ Utf8Next(rd_file, b)
    /\ rd_file' = Append(rd_file, b)
    /\ UNCHANGED <<rd_ss, rd_delivered, btVars, hookVars, svVars, fnVars>>

RdRead ==
    LET r == read_new_jsonl(rd_file, TRUE, rd_ss)
    IN /\ rd_ss' = r.ss
       /\ rd_delivered' = rd_delivered \o r.lines
       /\ UNCHANGED <<rd_file, btVars, hookVars, svVars, fnVars>>

ReaderNext ==
    \/ \E b \in ReaderBytes : RdAppend(b)
    \/ RdRead

SpecReader == Init /\ [][ReaderNext]_vars

\* The newline-terminated lines of a text.
CompleteLines(text) == SubSeq(Split(text), 1, Len(Split(text)) - 1)

\* The file is whole characters (the writer is not in the middle of one).
WholeChars(file) == file = <<>> \/ file[Len(file)] # "C3"

IsPrefix(s, t) == Len(s) <= Len(t) /\ SubSeq(t, 1, Len(s)) = s

\* C1: over any split of the transcript's growth across read_new_jsonl calls,
\* the complete lines handed on are the transcript's newline-terminated lines
\* in file order: always a prefix of them, and all of them once a call has
\* read to the end of the file.
C1_ReaderDeliversEveryLineOnce ==
    /\ WholeChars(rd_file) => IsPrefix(rd_delivered, CompleteLines(Decode(rd_file)))
    /\ (WholeChars(rd_file) /\ rd_ss.offset = Len(rd_file))
          => rd_delivered = CompleteLines(Decode(rd_file))

(***************************************************************************)
(* The assembler specification: build_turns on every message list of at    *)
(* most MaxMsgs messages drawn from MsgAlphabet, one loop pass per step.   *)
(***************************************************************************)
MsgAlphabet ==
    { Msg("user", "user", "", StrContent("q1")),
      Msg("user", "user", "", StrContent("q2")),
      Msg("assistant", "assistant", "m1", StrContent("v1")),
      Msg("assistant", "assistant", "m1", StrContent("v2")),
      Msg("assistant", "assistant", "", StrContent("v3")),
      Msg("assistant", "assistant", "noid:1", StrContent("v4")),
      Msg("user", "user", "", ListContent(<<Frag("tool_result", "t1", "r1")>>)),
      Msg("user", "user", "", ListContent(<<Frag("tool_result", "t1", "r2")>>)),
      Msg("user", "user", "", ListContent(<<Frag("tool_result", "t2", "r1"),
                                            Frag("tool_result", "", "r2"),
                                            Frag("tool_result", "t1", "r1")>>)),
      Msg("system", "", "", StrContent("s")) }

\* build_turns(messages) is entered.
BtCall(messages) ==
    /\ bt_pc = "idle"
    /\ bt_msgs' = messages
    /\ bt_pc' = "loop"
    /\ UNCHANGED <<bt_i, bt_st, bt_prev, bt_out, rdVars, hookVars, svVars, fnVars>>

\* for msg in messages: ...
BtStep ==
    /\ bt_pc = "loop" /\ bt_i < Len(bt_msgs)
    /\ bt_prev' = bt_st
    /\ bt_st' = BuildStep(bt_st, bt_msgs[bt_i + 1])
    /\ bt_i' = bt_i + 1
    /\ UNCHANGED <<bt_msgs, bt_out, bt_pc, rdVars, hookVars, svVars, fnVars>>

\* flush_turn(); return turns
BtReturn ==
    /\ bt_pc = "loop" /\ bt_i = Len(bt_msgs)
    /\ bt_out' = flush_turn(bt_st).turns
    /\ bt_pc' = "done"
    /\ UNCHANGED <<bt_msgs, bt_i, bt_st, bt_prev, rdVars, hookVars, svVars, fnVars>>

TurnsNext ==
    \/ /\ bt_pc = "idle"
       /\ \E messages \in UNION {[1..n -> MsgAlphabet] : n \in 0..MaxMsgs} : BtCall(messages)
    \/ BtStep
    \/ BtReturn

SpecTurns == Init /\ [][TurnsNext]_vars

\* Positions of the user messages that are no tool results, in order.
IsPrompt(m) == get_role(m) = "user" /\ ~is_tool_result(m)
PromptPositions(msgs) == {i \in 1..Len(msgs) : IsPrompt(msgs[i])}
\* The prompt at position i has an assistant message before the next prompt.
Replied(msgs, i) ==
    \E j \in (i + 1)..Len(msgs) :
        /\ get_role(msgs[j]) = "assistant"
        /\ \A k \in (i + 1)..j : ~IsPrompt(msgs[k])
\* The k-th smallest element of a set of numbers.
Nth(S, k) == CHOOSE x \in S : Cardinality({y \in S : y <= x}) = k
LastOf(S) == CHOOSE x \in S : \A y \in S : y <= x

\* C5: when every prompt (user message that is no tool result) of the list
\* has a reply, except possibly a trailing one, build_turns returns one turn
\* per replied prompt, the i-th turn holding the i-th prompt; a trailing
\* prompt without a reply yields no turn.
C5_OneTurnPerRepliedPrompt ==
    LET P == PromptPositions(bt_msgs)
        R == {i \in P : Replied(bt_msgs, i)}
    IN (bt_pc = "done" /\ \A i \in P : Replied(bt_msgs, i) \/ i = LastOf(P))
       => /\ Len(bt_out) = Cardinality(R)
          /\ \A k \in 1..Len(bt_out) : bt_out[k].user_msg = bt_msgs[Nth(P, k)]

\* Two different prompts, each replied, and the two turns returned for them.
C5_Witness ==
    /\ bt_pc = "done"
    /\ Cardinality(PromptPositions(bt_msgs)) = 2
    /\ \A i \in PromptPositions(bt_msgs) : Replied(bt_msgs, i)
    /\ Len(bt_out) = 2
    /\ bt_out[1].user_msg # bt_out[2].user_msg

\* C6: every returned Turn has a user message that is no tool result and at
\* least one assistant message, and the prompts that got a turn are exactly
\* the replied ones: a prompt with no assistant message before the next
\* prompt or the end of the list produces no Turn.
C6_TurnsHaveUserAndReply ==
    bt_pc = "done" =>
        /\ \A k \in 1..Len(bt_out) :
              /\ IsPrompt(bt_out[k].user_msg)
              /\ bt_out[k].assistant_msgs # <<>>
        /\ Len(bt_out) = Cardinality({i \in PromptPositions(bt_msgs) : Replied(bt_msgs, i)})

\* A list with an unanswered prompt in the middle and a turn after it.
C6_Witness ==
    /\ bt_pc = "done"
    /\ \E i \in PromptPositions(bt_msgs) :
          ~Replied(bt_msgs, i) /\ i < LastOf(PromptPositions(bt_msgs))
    /\ Len(bt_out) >= 1

(***************************************************************************)
(* The hook specification: invocations of main() by the processes Procs on *)
(* the session ("s1", "t1"), while the host appends to the transcript.     *)
(***************************************************************************)
\* Most invocations started in one behaviour.
MaxInv == 2

\* The bytes the host writes: one token per line and the newline ending it.
\* "x" is text json.loads rejects.
HookTokens == {"u", "a", "5", "x"}

\* flock that succeeds while another process holds the lock.
LockFree_Always == TRUE

\* LOCK_EX on a flock nobody holds.
LockFree == lockHolder = "none"

\* exists() that says yes for every path.
Exists_Always(path) == TRUE

\* Path.exists() of a transcript path: "t1" is the transcript, "t0" names no file.
Exists(path) == path = "t1"

\* state_key: SHA-256 of "session_id::transcript_path", taken as injective.
state_key(session_id, transcript_path) == <<session_id, transcript_path>>

\* A stdin payload: json is how the text parses ("blank" and "invalid" are
\* no JSON, "array" is JSON that is no object); for an object, session_id and
\* transcript_path are the values of those keys ("" when absent), sess and
\* tr say what the keys "session" and "transcript" hold.
Payload(json, sid, sess, tp, tr) ==
    [json |-> json, session_id |-> sid, session |-> sess,
     transcript_path |-> tp, transcript |-> tr]

PayloadSet ==
    { Payload("blank", "", "absent", "", "absent"),
      Payload("invalid", "", "absent", "", "absent"),
      Payload("array", "", "absent", "", "absent"),
      Payload("object", "s1", "absent", "t1", "absent"),
      Payload("object", "s1", "absent", "t0", "absent"),
      Payload("object", "s1", "absent", "", "absent"),
      Payload("object", "", "absent", "t1", "absent"),
      Payload("object", "", "object", "", "object"),
      Payload("object", "", "string", "t1", "absent"),
      Payload("object", "s1", "absent", "", "string") }

\* read_hook_payload: {} for blank or unparsable stdin, else json.loads(data).
read_hook_payload(stdin) ==
    IF stdin.json \in {"blank", "invalid"}
    THEN Payload("object", "", "absent", "", "absent")
    ELSE stdin

\* extract_session_and_transcript: .get on a value that is no dict raises
\* AttributeError; the `or` chains stop at the first truthy value.
extract_session_and_transcript(payload) ==
    LET noGet == payload.json # "object"
        sidRaises == payload.session_id = "" /\ payload.session = "string"
        session_id == IF payload.session_id # "" THEN payload.session_id
                      ELSE IF payload.session = "object" THEN "s1" ELSE ""
        trRaises == payload.transcript_path = "" /\ payload.transcript = "string"
        transcript_path == IF payload.transcript_path # "" THEN payload.transcript_path
                           ELSE IF payload.transcript = "object" THEN "t1" ELSE ""
    IN [raised |-> noGet \/ sidRaises \/ trRaises,
        session_id |-> session_id, transcript_path |-> transcript_path]

\* _create_provider: a provider for a known name whose dependency imports,
\* whose credentials are set and whose constructor does not raise.
ProviderNames == {"", "langfuse", "unknown"}
create_provider(name, constructible) == name = "langfuse" /\ constructible

load_state(file) == file

load_session_state(global_state, key) ==
    IF key \in DOMAIN global_state
    THEN SessionState(global_state[key].offset, global_state[key].buffer,
                      global_state[key].turn_count)
    ELSE SessionState(0, <<>>, 0)

\* A write_session_state that starts from an empty dict: the record of the
\* session is the only one kept.
write_session_state_OwnRecordOnly(global_state, key, s) ==
    DictSet(EmptyDict, key, SessionState(s.offset, s.buffer, s.turn_count))

\* write_session_state; the "updated" timestamp is left out.
write_session_state(global_state, key, s) ==
    DictSet(global_state, key, SessionState(s.offset, s.buffer, s.turn_count))

\* ss.turn_count = emitted: the count of this call alone.
CountTurns_Overwrite(s, n) == [s EXCEPT !.turn_count = n]

\* ss.turn_count += emitted
CountTurns(s, n) == [s EXCEPT !.turn_count = @ + n]

Key(p) == state_key(session[p][1], session[p][2])
\* A call to the sink as the provider sees it: the method, the turn number
\* and the Turn passed (0 and <<>> for flush and shutdown), and whether the
\* call raised.
SinkCall(name, n, arg, raised) == [call |-> name, n |-> n, arg |-> arg, raised |-> raised]
Call(name, n) == SinkCall(name, n, <<>>, FALSE)

\* The host appends one byte to the transcript.  Only Read looks at the
\* transcript, so the writes are taken when an invocation is about to read.
HostWrites(b) ==
    /\ \E p \in Procs : pc[p] = "read"
    /\ LET lfs == Cardinality({i \in 1..Len(transcript) : transcript[i] = LF})
           atStart == IF transcript = <<>> THEN TRUE ELSE transcript[Len(transcript)] = LF
       IN IF b = LF THEN ~atStart ELSE atStart /\ lfs < MaxLines
    /\ transcript' = Append(transcript, b)
    /\ UNCHANGED <<stateFile, stateShape, lockHolder, started, procVars, histVars, rdVars, btVars, svVars, fnVars>>

\* What main() resets when it is entered: its locals are fresh.
Fresh(p) ==
    /\ hasLock' = [hasLock EXCEPT ![p] = FALSE]
    /\ gstate' = [gstate EXCEPT ![p] = EmptyDict]
    /\ ss' = [ss EXCEPT ![p] = SessionState(0, <<>>, 0)]
    /\ turns' = [turns EXCEPT ![p] = <<>>]
    /\ emitted' = [emitted EXCEPT ![p] = 0]
    /\ ret' = [ret EXCEPT ![p] = "normal"]
    /\ loaded' = [loaded EXCEPT ![p] = SessionState(0, <<>>, 0)]
    /\ saveStatus' = [saveStatus EXCEPT ![p] = "none"]

\* main() returns at its first guards (lines 400-409): the feature flag is
\* not "true", or no provider name is set, or _create_provider returns None.
MainNoProvider(p, flag, name, constructible) ==
    /\ pc[p] \in {"idle", "done"}
    /\ started < MaxInv
    /\ ~(flag = "true" /\ name # "" /\ create_provider(name, constructible))
    /\ started' = started + 1
    /\ provider' = [provider EXCEPT ![p] = "none"]
    /\ pc' = [pc EXCEPT ![p] = "done"]
    /\ rc' = [rc EXCEPT ![p] = "0"]
    /\ session' = [session EXCEPT ![p] = <<"", "">>]
    /\ sinkLog' = [sinkLog EXCEPT ![p] = <<>>]
    /\ Fresh(p)
    /\ UNCHANGED <<transcript, stateFile, stateShape, lockHolder, histVars, rdVars, btVars, svVars, fnVars>>

\* main() with the flag on and a provider constructed, up to the with-block:
\* the payload and the guards on it (lines 411-420).
MainGuards(p, stdin) ==
    LET e == extract_session_and_transcript(read_hook_payload(stdin))
        goes == ~e.raised /\ e.session_id # "" /\ e.transcript_path # ""
                /\ Exists(e.transcript_path)
    IN /\ pc[p] \in {"idle", "done"}
       /\ started < MaxInv
       /\ create_provider("langfuse", TRUE)
       /\ started' = started + 1
       /\ provider' = [provider EXCEPT ![p] = "live"]
       /\ pc' = [pc EXCEPT ![p] = IF goes THEN "lock" ELSE "done"]
       /\ rc' = [rc EXCEPT ![p] = IF goes THEN "running"
                                  ELSE IF e.raised THEN "exception" ELSE "0"]
       /\ session' = [session EXCEPT ![p] = IF e.raised THEN <<"", "">>
                                            ELSE <<e.session_id, e.transcript_path>>]
       /\ sinkLog' = [sinkLog EXCEPT ![p] = <<>>]
       /\ Fresh(p)
       /\ UNCHANGED <<transcript, stateFile, stateShape, lockHolder, histVars, rdVars, btVars, svVars, fnVars>>

\* __enter__ that returns without calling flock.
LockAcquire_NoFlock(p) ==
    /\ pc[p] = "lock"
    /\ pc' = [pc EXCEPT ![p] = "load"]
    /\ UNCHANGED <<transcript, stateFile, stateShape, lockHolder, started, rc, provider, session,
                   hasLock, gstate, ss, turns, emitted, ret, sinkLog, loaded, saveStatus,
                   histVars, rdVars, btVars, svVars, fnVars>>

\* FileLock.__enter__: flock(LOCK_EX | LOCK_NB) succeeds.
LockAcquire(p) ==
    /\ pc[p] = "lock"
    /\ LockFree
    /\ lockHolder' = p
    /\ hasLock' = [hasLock EXCEPT ![p] = TRUE]
    /\ pc' = [pc EXCEPT ![p] = "load"]
    /\ UNCHANGED <<transcript, stateFile, stateShape, started, rc, provider, session, gstate, ss,
                   turns, emitted, ret, sinkLog, loaded, saveStatus, histVars,
                   rdVars, btVars, svVars, fnVars>>

\* __enter__ with a blocking flock: no deadline, no way in without the lock.
LockGivenUp_Never(p, timedOut) ==
    /\ FALSE
    /\ UNCHANGED vars

\* FileLock.__enter__: the lock stayed held until the deadline (BlockingIOError
\* on every retry), or fcntl is missing or flock raised: the with-block is
\* entered without the lock.
LockGivenUp(p, timedOut) ==
    /\ pc[p] = "lock"
    /\ timedOut => ~LockFree
    /\ pc' = [pc EXCEPT ![p] = "load"]
    /\ everUnlocked' = TRUE
    /\ UNCHANGED <<transcript, stateFile, stateShape, lockHolder, started, rc, provider, session,
                   hasLock, gstate, ss, turns, emitted, ret, sinkLog,
                   loaded, saveStatus, issued, collision, everSaveFailed, dispatched, rdVars, btVars, svVars, fnVars>>

\* FileLock.__enter__: STATE_DIR.mkdir or open(LOCK_FILE) raises; the with-block
\* is not entered and main's except takes over.
LockOpenFails(p) ==
    /\ pc[p] = "lock"
    /\ pc' = [pc EXCEPT ![p] = "finally"]
    /\ ret' = [ret EXCEPT ![p] = "raised"]
    /\ UNCHANGED <<transcript, stateFile, stateShape, lockHolder, started, rc, provider, session,
                   hasLock, gstate, ss, turns, emitted, sinkLog, loaded, saveStatus,
                   histVars, rdVars, btVars, svVars, fnVars>>

\* load_session_state on what load_state returned: global_state.get raises
\* AttributeError when the state file holds JSON that is no object.
LoadRaises(shape) == shape = "array"

\* state = load_state(); key = state_key(...); ss = load_session_state(state, key),
\* whose exception ends the with-block.
Load(p) ==
    /\ pc[p] = "load"
    /\ gstate' = [gstate EXCEPT ![p] = IF LoadRaises(stateShape) THEN @
                                       ELSE load_state(stateFile)]
    /\ ss' = [ss EXCEPT ![p] = IF LoadRaises(stateShape) THEN @
                               ELSE load_session_state(load_state(stateFile), Key(p))]
    /\ loaded' = [loaded EXCEPT ![p] = IF LoadRaises(stateShape) THEN @
                                       ELSE load_session_state(load_state(stateFile), Key(p))]
    /\ ret' = [ret EXCEPT ![p] = IF LoadRaises(stateShape) THEN "raised" ELSE @]
    /\ pc' = [pc EXCEPT ![p] = IF LoadRaises(stateShape) THEN "unlock" ELSE "read"]
    /\ UNCHANGED <<transcript, stateFile, stateShape, lockHolder, started, rc, provider,
                   session, hasLock, turns, emitted, sinkLog, saveStatus, histVars,
                   rdVars, btVars, svVars, fnVars>>

\* msgs, ss = read_new_jsonl(...); turns = build_turns(msgs), with the two
\* early returns and the exception build_turns raises on a non-dict message.
Read(p, readable) ==
    LET r == read_new_jsonl(transcript, readable, ss[p])
        raises == r.msgs # <<>> /\ BuildRaises(r.msgs)
        ts == IF r.msgs = <<>> \/ raises THEN <<>> ELSE build_turns(r.msgs)
    IN /\ pc[p] = "read"
       /\ ss' = [ss EXCEPT ![p] = r.ss]
       /\ turns' = [turns EXCEPT ![p] = ts]
       /\ ret' = [ret EXCEPT ![p] = IF raises THEN "raised"
                                    ELSE IF ts = <<>> THEN "early" ELSE "normal"]
       /\ pc' = [pc EXCEPT ![p] = IF raises THEN "unlock"
                                  ELSE IF ts = <<>> THEN "save" ELSE "emit"]
       /\ UNCHANGED <<transcript, stateFile, stateShape, lockHolder, started, rc, provider, session,
                      hasLock, gstate, emitted, sinkLog, loaded, saveStatus, histVars,
                      rdVars, btVars, svVars, fnVars>>

\* A loop that an exception of emit_turn ends: the turns after it are not
\* dispatched.
Emit_StopsOnFailure(p, raises) ==
    LET turn_num == ss[p].turn_count + emitted[p] + 1
    IN /\ pc[p] = "emit"
       /\ emitted' = [emitted EXCEPT ![p] = @ + 1]
       /\ sinkLog' = [sinkLog EXCEPT ![p] =
                          Append(@, SinkCall("emit_turn", turn_num,
                                             turns[p][emitted[p] + 1], raises))]
       /\ issued' = issued \cup {turn_num}
       /\ collision' = (collision \/ turn_num \in issued)
       /\ dispatched' = Append(dispatched, turns[p][emitted[p] + 1])
       /\ pc' = [pc EXCEPT ![p] = IF raises \/ emitted[p] + 1 = Len(turns[p])
                                  THEN "save" ELSE "emit"]
       /\ UNCHANGED <<transcript, stateFile, stateShape, lockHolder, started, rc, provider, session,
                      hasLock, gstate, ss, turns, ret, loaded, saveStatus, everUnlocked,
                      everSaveFailed, rdVars, btVars, svVars, fnVars>>

\* One pass of `for t in turns`: emitted += 1; provider.emit_turn(...), whose
\* exception is swallowed.
Emit(p, raises) ==
    LET turn_num == ss[p].turn_count + emitted[p] + 1
    IN /\ pc[p] = "emit"
       /\ emitted' = [emitted EXCEPT ![p] = @ + 1]
       /\ sinkLog' = [sinkLog EXCEPT ![p] =
                          Append(@, SinkCall("emit_turn", turn_num,
                                             turns[p][emitted[p] + 1], raises))]
       /\ issued' = issued \cup {turn_num}
       /\ collision' = (collision \/ turn_num \in issued)
       /\ dispatched' = Append(dispatched, turns[p][emitted[p] + 1])
       /\ pc' = [pc EXCEPT ![p] = IF emitted[p] + 1 = Len(turns[p]) THEN "save" ELSE "emit"]
       /\ UNCHANGED <<transcript, stateFile, stateShape, lockHolder, started, rc, provider, session,
                      hasLock, gstate, ss, turns, ret, loaded, saveStatus, everUnlocked,
                      everSaveFailed, rdVars, btVars, svVars, fnVars>>

\* ss.turn_count += emitted; write_session_state(state, key, ss);
\* save_state(state), which swallows a failure to write or rename.
Save(p, written) ==
    LET s == CountTurns(ss[p], emitted[p])
        g == write_session_state(gstate[p], Key(p), s)
    IN /\ pc[p] = "save"
       /\ ss' = [ss EXCEPT ![p] = s]
       /\ gstate' = [gstate EXCEPT ![p] = g]
       /\ stateFile' = IF written THEN g ELSE stateFile
       /\ stateShape' = IF written THEN "dict" ELSE stateShape
       /\ saveStatus' = [saveStatus EXCEPT ![p] = IF written THEN "ok" ELSE "failed"]
       /\ everSaveFailed' = (everSaveFailed \/ ~written)
       /\ pc' = [pc EXCEPT ![p] = "unlock"]
       /\ UNCHANGED <<transcript, lockHolder, started, rc, provider, session, hasLock,
                      turns, emitted, ret, sinkLog, loaded, issued, collision,
                      everUnlocked, dispatched, rdVars, btVars, svVars, fnVars>>

\* An unlock that runs only at the end of the with-block's body: an early
\* return or an exception leaves the lock held.
Unlock_AtEndOfBodyOnly(p) ==
    /\ pc[p] = "unlock"
    /\ lockHolder' = IF hasLock[p] /\ ret[p] = "normal" THEN "none" ELSE lockHolder
    /\ hasLock' = [hasLock EXCEPT ![p] = FALSE]
    /\ pc' = [pc EXCEPT ![p] = IF ret[p] = "normal" THEN "flush" ELSE "finally"]
    /\ UNCHANGED <<transcript, stateFile, stateShape, started, rc, provider, session, gstate, ss,
                   turns, emitted, ret, sinkLog, loaded, saveStatus, histVars,
                   rdVars, btVars, svVars, fnVars>>

\* FileLock.__exit__: LOCK_UN and close.
Unlock(p) ==
    /\ pc[p] = "unlock"
    /\ lockHolder' = IF hasLock[p] THEN "none" ELSE lockHolder
    /\ hasLock' = [hasLock EXCEPT ![p] = FALSE]
    /\ pc' = [pc EXCEPT ![p] = IF ret[p] = "normal" THEN "flush" ELSE "finally"]
    /\ UNCHANGED <<transcript, stateFile, stateShape, started, rc, provider, session, gstate, ss,
                   turns, emitted, ret, sinkLog, loaded, saveStatus, histVars,
                   rdVars, btVars, svVars, fnVars>>

\* flush whose exception ends the invocation: shutdown is not called.
Flush_Unguarded(p, raises) ==
    /\ pc[p] = "flush"
    /\ sinkLog' = [sinkLog EXCEPT ![p] = Append(@, SinkCall("flush", 0, <<>>, raises))]
    /\ pc' = [pc EXCEPT ![p] = IF raises THEN "return" ELSE "finally"]
    /\ UNCHANGED <<transcript, stateFile, stateShape, lockHolder, started, rc, provider, session,
                   hasLock, gstate, ss, turns, emitted, ret, loaded, saveStatus,
                   histVars, rdVars, btVars, svVars, fnVars>>

\* provider.flush(), whose exception is swallowed.
Flush(p, raises) ==
    /\ pc[p] = "flush"
    /\ sinkLog' = [sinkLog EXCEPT ![p] = Append(@, SinkCall("flush", 0, <<>>, raises))]
    /\ pc' = [pc EXCEPT ![p] = "finally"]
    /\ UNCHANGED <<transcript, stateFile, stateShape, lockHolder, started, rc, provider, session,
                   hasLock, gstate, ss, turns, emitted, ret, loaded, saveStatus,
                   histVars, rdVars, btVars, svVars, fnVars>>

\* finally: provider.shutdown(), whose exception is swallowed.
Finally(p) ==
    /\ pc[p] = "finally"
    /\ sinkLog' = [sinkLog EXCEPT ![p] = Append(@, Call("shutdown", 0))]
    /\ provider' = [provider EXCEPT ![p] = "shutdown"]
    /\ pc' = [pc EXCEPT ![p] = "return"]
    /\ UNCHANGED <<transcript, stateFile, stateShape, lockHolder, started, rc, session, hasLock,
                   gstate, ss, turns, emitted, ret, loaded, saveStatus, histVars, rdVars, btVars, svVars, fnVars>>

\* return 0: main() is left and its locals are gone.
Return(p) ==
    /\ pc[p] = "return"
    /\ rc' = [rc EXCEPT ![p] = "0"]
    /\ pc' = [pc EXCEPT ![p] = "done"]
    /\ sinkLog' = [sinkLog EXCEPT ![p] = <<>>]
    /\ Fresh(p)
    /\ UNCHANGED <<transcript, stateFile, stateShape, lockHolder, started, provider, session,
                   histVars, rdVars, btVars, svVars, fnVars>>

\* Between invocations the state file is lost or damaged: deleted or left
\* with text that is no JSON ("lost": load_state returns {}), or left with
\* JSON that is no object ("array": load_state returns it).
StateFileDamaged(shape) ==
    /\ \A p \in Procs : pc[p] \in {"idle", "done"}
    /\ started < MaxInv
    /\ stateShape = "dict"
    /\ stateFile' = EmptyDict
    /\ stateShape' = IF shape = "array" THEN "array" ELSE "dict"
    /\ UNCHANGED <<transcript, lockHolder, started, procVars, histVars, rdVars, btVars, svVars, fnVars>>

\* The steps of an invocation past the guards when nothing fails: the lock
\* is taken, or given up at the deadline while another process holds it.
Invocation(p) ==
    \/ LockAcquire(p)
    \/ LockGivenUp(p, TRUE)
    \/ Load(p)
    \/ Read(p, TRUE)
    \/ \E raises \in BOOLEAN : Emit(p, raises)
    \/ Save(p, TRUE)
    \/ Unlock(p)
    \/ \E raises \in BOOLEAN : Flush(p, raises)
    \/ Finally(p)
    \/ Return(p)

\* What the environment can make fail: flock, opening the lock file,
\* reading the transcript, writing the state file.
Failure(p) ==
    \/ LockGivenUp(p, FALSE)
    \/ LockOpenFails(p)
    \/ Read(p, FALSE)
    \/ Save(p, FALSE)

\* One process invoked again and again, with every environment and payload,
\* on a transcript of any lines.
Next ==
    \/ \E b \in HookTokens \cup {LF} : HostWrites(b)
    \/ \E flag \in {"true", ""}, name \in ProviderNames, constructible \in BOOLEAN :
          MainNoProvider("p1", flag, name, constructible)
    \/ \E stdin \in PayloadSet : MainGuards("p1", stdin)
    \/ Invocation("p1")
    \/ Failure("p1")
    \/ \E shape \in {"lost", "array"} : StateFileDamaged(shape)

Spec == Init /\ [][Next]_vars

\* The processes of Procs invoked concurrently for the session ("s1", "t1"),
\* on a transcript of user and assistant lines.
ConcurrentNext ==
    \/ \E b \in {"u", "a", LF} : HostWrites(b)
    \/ \E p \in Procs : MainGuards(p, Payload("object", "s1", "absent", "t1", "absent"))
    \/ \E p \in Procs : Invocation(p)

SpecConcurrent == Init /\ [][ConcurrentNext]_vars

(***************************************************************************)
(* Properties of the hook.                                                 *)
(***************************************************************************)
\* The invocation of p is at the end of its with-block or past it.
AfterBlock(p) == pc[p] \in {"unlock", "flush", "finally", "return"}

\* The SessionState the state file holds for the session of p.
Persisted(p) == load_session_state(load_state(stateFile), Key(p))

\* The offset the state file holds for the session ("s1", "t1").
PersistedOffset == load_session_state(load_state(stateFile), state_key("s1", "t1")).offset

\* The turns of the transcript so far: its prompts that have a reply.
TranscriptTurns ==
    LET objs == SelectSeq(ParseLines(CompleteLines(Decode(transcript))),
                          LAMBDA m : m.json = "object")
    IN Cardinality({i \in PromptPositions(objs) : Replied(objs, i)})

\* C3: main() always returns 0; no exception escapes it, whatever the
\* environment, the stdin payload, the files and the sink do.
C3_MainAlwaysReturnsZero ==
    \A p \in Procs : rc[p] # "exception" /\ (pc[p] = "done" => rc[p] = "0")

\* C10: an invocation whose payload has no session id or no transcript path
\* returns 0, leaves the state file as it was and constructs no provider.
C10_MissingIdsNoSink ==
    [][\A p \in Procs :
          (/\ pc[p] \in {"idle", "done"}
           /\ pc'[p] = "done"
           /\ started' = started + 1
           /\ session'[p][1] = "" \/ session'[p][2] = "")
          => (rc'[p] = "0" /\ provider'[p] = "none" /\ stateFile' = stateFile)]_vars

\* C8: when an invocation past the guards has read new bytes of the transcript
\* (and its save did not fail), then once it has left its with-block the
\* offset persisted for its session is the end of file its read reached.
C8_OffsetPersistedAfterRead ==
    \A p \in Procs :
        (/\ pc[p] \in {"flush", "finally", "return"}
         /\ ss[p].offset > loaded[p].offset
         /\ saveStatus[p] # "failed")
        => Persisted(p).offset = ss[p].offset

C9_NoNewBytesNoChange ==
    \A p \in Procs :
        (pc[p] = "unlock" /\ ss[p].offset = loaded[p].offset)
        => /\ emitted[p] = 0
           /\ sinkLog[p] = <<>>
           /\ Persisted(p) = loaded[p]

\* An invocation after a completed one that dispatched a turn and left a
\* partial line in the buffer; no byte was written since and its save went
\* through.
C9_Witness ==
    \E p \in Procs :
        /\ pc[p] = "unlock"
        /\ saveStatus[p] = "ok"
        /\ loaded[p].turn_count = 1
        /\ loaded[p].buffer # <<>>
        /\ loaded[p].offset = Len(transcript)
        /\ ss[p] = loaded[p]

C7_OffsetNeverDecreases ==
    [][PersistedOffset' >= PersistedOffset]_vars

\* C7: as long as no invocation has entered its with-block without the lock,
\* the offset persisted for the session never decreases.
C7_OffsetMonotoneUnderLock ==
    [][~everUnlocked' => PersistedOffset' >= PersistedOffset]_vars

\* Two overlapping invocations through the lock; the second has moved the
\* persisted offset on from where the first left it.
C7_Witness ==
    \E p, q \in Procs :
        /\ p # q
        /\ ~everUnlocked
        /\ pc[q] \in {"flush", "finally", "return"}
        /\ pc[p] = "unlock"
        /\ saveStatus[p] = "ok"
        /\ loaded[p].offset > 0
        /\ PersistedOffset > loaded[p].offset

\* C11: once a provider has been constructed, an invocation that returns 0
\* has called shutdown on it, whichever way it ends.
C11_ShutdownOnEveryExit ==
    \A p \in Procs : (pc[p] = "done" /\ rc[p] = "0") => provider[p] # "live"

\* The sink calls of p so far that are emit_turn calls.
EmitCalls(p) == SelectSeq(sinkLog[p], LAMBDA c : c.call = "emit_turn")

\* C12: the emit_turn calls of an invocation are its assembled turns in
\* assembly order, each once, numbered from the stored turn_count + 1 on;
\* whether or not a call raised, the loop goes on to the last turn and
\* turn_count then counts every turn.
C12_EveryTurnDispatchedOnce ==
    \A p \in Procs :
        /\ emitted[p] <= Len(turns[p])
        /\ Len(EmitCalls(p)) = emitted[p]
        /\ \A k \in 1..emitted[p] :
              /\ sinkLog[p][k].call = "emit_turn"
              /\ sinkLog[p][k].n = loaded[p].turn_count + k
              /\ sinkLog[p][k].arg = turns[p][k]
        /\ pc[p] = "save" => emitted[p] = Len(turns[p])
        /\ (pc[p] \in {"unlock", "flush", "finally", "return"} /\ ret[p] = "normal")
              => /\ emitted[p] = Len(turns[p])
                 /\ ss[p].turn_count = loaded[p].turn_count + Len(turns[p])

\* Two turns dispatched in one invocation, the first emit_turn raised; both
\* are counted in the persisted turn_count.
C12_Witness ==
    \E p \in Procs :
        /\ pc[p] = "unlock"
        /\ saveStatus[p] = "ok"
        /\ Len(turns[p]) = 2
        /\ Len(sinkLog[p]) = 2
        /\ sinkLog[p][1].raised
        /\ ~sinkLog[p][2].raised
        /\ Persisted(p).turn_count = loaded[p].turn_count + 2

\* C14: whatever makes the lock unavailable, the invocation goes on from
\* FileLock.__enter__ into its with-block, to load_state.
C14_LockFailureDegradesToUnlocked ==
    [][\A p \in Procs : pc[p] = "lock" => pc'[p] \in {"lock", "load"}]_vars

\* C15 as stated: an invocation that is about to write the state file holds
\* the exclusive state lock.
C15_SaveHoldsLock ==
    \A p \in Procs : pc[p] = "save" => (hasLock[p] /\ lockHolder = p)

\* C15: the state file changes only in the save step of an invocation inside
\* its with-block, and as long as no invocation has given up on the lock the
\* invocation that writes holds the exclusive state lock.
C15_SaveHoldsLockUnlessGivenUp ==
    [][stateFile' # stateFile
          => \E p \in Procs :
                /\ pc[p] = "save"
                /\ pc'[p] = "unlock"
                /\ ~everUnlocked => (hasLock[p] /\ lockHolder = p)]_vars

\* An invocation has written its record under the lock while the other one
\* waits for the lock.
C15_Witness ==
    \E p, q \in Procs :
        /\ p # q
        /\ ~everUnlocked
        /\ pc[q] = "lock"
        /\ pc[p] = "unlock"
        /\ hasLock[p]
        /\ saveStatus[p] = "ok"
        /\ Persisted(p).offset > 0

\* C16: an invocation that is about to call emit_turn or flush does not hold
\* the state lock.
C16_SinkCallsOutsideLock ==
    \A p \in Procs : pc[p] \in {"emit", "flush"} => ~hasLock[p]

\* C17: flush is called on the happy path only: after the save step, when
\* the lock is released and (the save having written the file) the persisted
\* SessionState is the updated one, after the emit_turn calls and before
\* shutdown; whether or not flush raised, shutdown is the last call.
C17_FlushAfterSaveBeforeShutdown ==
    \A p \in Procs :
        /\ \A k \in 1..Len(sinkLog[p]) :
              sinkLog[p][k].call = "flush"
              => /\ ~hasLock[p]
                 /\ ret[p] = "normal"
                 /\ saveStatus[p] # "none"
                 /\ saveStatus[p] = "ok" => Persisted(p) = ss[p]
                 /\ \A j \in 1..(k - 1) : sinkLog[p][j].call = "emit_turn"
        /\ (pc[p] = "finally" /\ ret[p] = "normal")
              => sinkLog[p][Len(sinkLog[p])].call = "flush"
        /\ pc[p] = "return" => sinkLog[p][Len(sinkLog[p])].call = "shutdown"

\* One turn dispatched and saved, flush raised, shutdown called after it.
C17_Witness ==
    \E p \in Procs :
        /\ pc[p] = "return"
        /\ saveStatus[p] = "ok"
        /\ Len(sinkLog[p]) = 3
        /\ sinkLog[p][2].call = "flush"
        /\ sinkLog[p][2].raised
        /\ sinkLog[p][3].call = "shutdown"

\* C18: an invocation stopped by the flag or provider guards (no provider)
\* or by the guard on a transcript path that names no file ("t0") is over
\* with return value 0, holds no lock and has made no sink call; the step
\* that starts an invocation leaves the lock, the state file and the turn
\* numbers issued as they were.
C18_GuardsHaveNoSideEffects ==
    [][/\ \A p \in Procs :
             (provider'[p] = "none" \/ session'[p][2] = "t0")
             => /\ pc'[p] \in {"idle", "done"}
                /\ pc'[p] = "done" => rc'[p] = "0"
                /\ ~hasLock'[p]
                /\ sinkLog'[p] = <<>>
       /\ started' = started + 1
             => /\ stateFile' = stateFile
                /\ lockHolder' = lockHolder
                /\ issued' = issued]_vars

\* An invocation for a transcript path that names no file has returned 0
\* and the record an earlier invocation saved is still there.
C18_Witness ==
    \E p \in Procs :
        /\ pc[p] = "done"
        /\ rc[p] = "0"
        /\ provider[p] = "live"
        /\ session[p] = <<"s1", "t0">>
        /\ started = 2
        /\ PersistedOffset > 0

\* C19: load_state and load_session_state never end the with-block: whatever
\* the state file holds, the invocation goes on from loading to reading.
C19_LoadNeverCrashes ==
    [][\A p \in Procs : pc[p] = "load" => pc'[p] \in {"load", "read"}]_vars

(***************************************************************************)
(* Liveness.  The invocation of p1 takes its steps (each call it makes     *)
(* returns); nothing is assumed of the other process, which may stay       *)
(* where it is for ever, holding the lock.                                 *)
(***************************************************************************)
\* The host writes the transcript of one turn, byte by byte.
LiveWrites(b) ==
    /\ IsPrefix(Append(transcript, b), <<"u", LF, "a", LF>>)
    /\ HostWrites(b)

LiveNext ==
    \/ \E b \in {"u", "a", LF} : LiveWrites(b)
    \/ \E p \in Procs : MainGuards(p, Payload("object", "s1", "absent", "t1", "absent"))
    \/ \E p \in Procs : Invocation(p)

\* Read(p, TRUE) seen from the program counter: it is enabled whenever p is
\* at "read" and it moves p on.
ReadReturns(p) ==
    /\ pc[p] = "read"
    /\ \E v \in {"unlock", "save", "emit"} : pc' = [pc EXCEPT ![p] = v]
    /\ emitted' = emitted

\* A step of the invocation of p.
Advance(p) ==
    \/ LockAcquire(p)
    \/ LockGivenUp(p, TRUE)
    \/ Load(p)
    \/ ReadReturns(p)
    \/ \E raises \in BOOLEAN : Emit(p, raises)
    \/ Save(p, TRUE)
    \/ Unlock(p)
    \/ \E raises \in BOOLEAN : Flush(p, raises)
    \/ Finally(p)
    \/ Return(p)

SpecLive == Init /\ [][LiveNext]_vars /\ WF_<<pc, emitted>>(Advance("p1"))

\* C13: an invocation that has reached the state lock always comes to its
\* end, whether or not the lock is ever released.
C13_LockNeverHangs == (pc["p1"] = "lock") ~> (pc["p1"] = "done")

\* p1 has returned 0 after giving up on the lock, which p2 still holds.
C13_Witness ==
    /\ everUnlocked
    /\ lockHolder = "p2"
    /\ pc["p1"] = "done"
    /\ rc["p1"] = "0"

(***************************************************************************)
(* The save specification: save_state step by step, called by the          *)
(* processes Procs with nothing that keeps their calls apart.  The state   *)
(* directory holds STATE_FILE and the path STATE_FILE.with_suffix(".tmp"), *)
(* the same path in every process; a file is an inode, which a path names  *)
(* and which a process may hold open.  data is the process whose text the  *)
(* file holds ("old": the text before any of the saves), whole says that   *)
(* the text is the complete text of one json.dumps.                        *)
(***************************************************************************)
\* Most save_state calls started in one behaviour.
MaxSaves == 3

\* Inodes at hand: STATE_FILE, the temp path and one open file per process.
NumInodes == 4

File(data, whole) == [data |-> data, whole |-> whole]

\* An inode that no path names and no process holds open.
FreeInode ==
    CHOOSE i \in 1..NumInodes :
        i \notin ({sv_state, sv_tmp} \cup {sv_fd[q] : q \in Procs})

\* save_state is entered.
SaveBegin(p) ==
    /\ sv_pc[p] = "idle"
    /\ sv_saves < MaxSaves
    /\ sv_saves' = sv_saves + 1
    /\ sv_pc' = [sv_pc EXCEPT ![p] = "open"]
    /\ UNCHANGED <<sv_inode, sv_state, sv_tmp, sv_fd, rdVars, btVars, hookVars, fnVars>>

\* tmp.write_text, first half: open(tmp, "w") creates the file or truncates
\* the one the path names.
TmpOpen(p) ==
    LET i == IF sv_tmp # 0 THEN sv_tmp ELSE FreeInode
    IN /\ sv_pc[p] = "open"
       /\ sv_inode' = [k \in DOMAIN sv_inode \cup {i} |->
                          IF k = i THEN File("", FALSE) ELSE sv_inode[k]]
       /\ sv_tmp' = i
       /\ sv_fd' = [sv_fd EXCEPT ![p] = i]
       /\ sv_pc' = [sv_pc EXCEPT ![p] = "write"]
       /\ UNCHANGED <<sv_state, sv_saves, rdVars, btVars, hookVars, fnVars>>

\* tmp.write_text, second half: the text is written from offset 0 into the
\* file that was opened, which is then closed.  When another process wrote a
\* longer text into the same file, its tail stays behind the new text.
TmpWrite(p, tail) ==
    /\ sv_pc[p] = "write"
    /\ tail => sv_inode[sv_fd[p]].data \notin {"", p}
    /\ sv_inode' = [sv_inode EXCEPT ![sv_fd[p]] = File(p, ~tail)]
    /\ sv_fd' = [sv_fd EXCEPT ![p] = 0]
    /\ sv_pc' = [sv_pc EXCEPT ![p] = "rename"]
    /\ UNCHANGED <<sv_state, sv_tmp, sv_saves, rdVars, btVars, hookVars, fnVars>>

\* os.replace(tmp, STATE_FILE); FileNotFoundError when the temp path names
\* nothing, which save_state swallows.
Rename(p) ==
    /\ sv_pc[p] = "rename"
    /\ sv_state' = IF sv_tmp # 0 THEN sv_tmp ELSE sv_state
    /\ sv_tmp' = 0
    /\ sv_pc' = [sv_pc EXCEPT ![p] = "idle"]
    /\ UNCHANGED <<sv_inode, sv_fd, sv_saves, rdVars, btVars, hookVars, fnVars>>

\* The process dies inside save_state; its open file is closed.
Crash(p) ==
    /\ sv_pc[p] \in {"open", "write", "rename"}
    /\ sv_fd' = [sv_fd EXCEPT ![p] = 0]
    /\ sv_pc' = [sv_pc EXCEPT ![p] = "idle"]
    /\ UNCHANGED <<sv_inode, sv_state, sv_tmp, sv_saves, rdVars, btVars, hookVars, fnVars>>

SaveNext ==
    \/ \E p \in Procs : SaveBegin(p)
    \/ \E p \in Procs : TmpOpen(p)
    \/ \E p \in Procs, tail \in BOOLEAN : TmpWrite(p, tail)
    \/ \E p \in Procs : Rename(p)
    \/ \E p \in Procs : Crash(p)

SpecSave == Init /\ [][SaveNext]_vars

\* C20: at every point of every save, crashes and saves of several
\* invocations included, the state file holds the complete text of the
\* previous content or of one save.
C20_StateFileAlwaysWhole == sv_inode[sv_state].whole

(***************************************************************************)
(* Unparsable lines.                                                       *)
(***************************************************************************)
\* json.loads accepts the line (blank lines are skipped before it is tried).
Parsable(line) == Strip(line) # <<>> /\ JsonLoads(Strip(line))[1]

RECURSIVE ValuesOf(_)
\* The JSON values of parsable lines, in order.
ValuesOf(lines) ==
    IF lines = <<>> THEN <<>>
    ELSE <<JsonLoads(Strip(Head(lines)))[2]>> \o ValuesOf(Tail(lines))

\* The complete lines the read of invocation p found: the stored buffer and
\* the bytes after the stored offset, up to the last newline.
LinesRead(p) ==
    CompleteLines(loaded[p].buffer
                  \o Decode(SubSeq(transcript, loaded[p].offset + 1, Len(transcript))))

\* The read of invocation p found new bytes and has returned.
HasRead(p) ==
    /\ pc[p] \in {"emit", "save", "unlock", "flush", "finally", "return"}
    /\ loaded[p].offset < Len(transcript)
    /\ ss[p].offset = Len(transcript)

\* C21: a complete line json.loads rejects is left out and nothing else: the
\* invocation goes on with the values of the other complete lines of the
\* read, in line order, as if the rejected lines were not there; the turns
\* those values form are assembled and, once the loop is over, each has been
\* passed to emit_turn.
C21_BadLineDroppedOnly ==
    \A p \in Procs :
        HasRead(p) =>
            LET objs == ValuesOf(SelectSeq(LinesRead(p), Parsable))
            IN IF BuildRaises(objs) THEN ret[p] = "raised"
               ELSE /\ ret[p] # "raised"
                    /\ turns[p] = IF objs = <<>> THEN <<>> ELSE build_turns(objs)
                    /\ pc[p] \notin {"emit", "save"}
                          => [k \in 1..Len(EmitCalls(p)) |-> EmitCalls(p)[k].arg] = turns[p]

\* A read of three lines, the rejected one between a prompt and its reply:
\* the turn of the two is dispatched.
C21_Witness ==
    \E p \in Procs :
        /\ HasRead(p)
        /\ pc[p] = "unlock"
        /\ LinesRead(p) = <<<<"u">>, <<"x">>, <<"a">>>>
        /\ Len(EmitCalls(p)) = 1
        /\ EmitCalls(p)[1].arg = Turn(UserLine, <<AssistantLine>>, EmptyDict)

(***************************************************************************)
(* The tool-result table of the open turn.                                 *)
(***************************************************************************)
RECURSIVE ResultsIn(_)
\* The tool_result fragments of the tool-result messages of a list, in order.
ResultsIn(msgs) ==
    IF msgs = <<>> THEN <<>>
    ELSE (IF is_tool_result(Head(msgs)) THEN iter_tool_results(Head(msgs).content)
          ELSE <<>>) \o ResultsIn(Tail(msgs))

\* Position of the last prompt among the first i messages, 0 when none.
TurnStart(msgs, i) ==
    IF \E j \in 1..i : IsPrompt(msgs[j])
    THEN CHOOSE j \in 1..i : IsPrompt(msgs[j]) /\ \A k \in (j + 1)..i : ~IsPrompt(msgs[k])
    ELSE 0

\* The results delivered under an id since the last prompt, in order.
Delivered ==
    SelectSeq(ResultsIn(SubSeq(bt_msgs, TurnStart(bt_msgs, bt_i) + 1, bt_i)),
              LAMBDA f : f.tool_use_id # "")

\* C22: the tool-result table holds one value for each id delivered since
\* the turn was opened, the content of the last result delivered under that
\* id, and delivering the last tool-result message once more leaves the
\* table as it is.
C22_ResultTableLastWriteWins ==
    bt_pc \in {"loop", "done"} =>
        LET d == Delivered
            m == bt_st.tool_results_by_id
        IN /\ DOMAIN m = {d[k].tool_use_id : k \in 1..Len(d)}
           /\ \A k \in 1..Len(d) :
                 (\A j \in (k + 1)..Len(d) : d[j].tool_use_id # d[k].tool_use_id)
                     => m[d[k].tool_use_id] = d[k].content
           /\ (bt_i > 0 /\ is_tool_result(bt_msgs[bt_i]))
                 => BuildStep(bt_st, bt_msgs[bt_i]).tool_results_by_id = m

\* Within one turn, "r1" then "r2" then "r2" again were delivered for "t1".
C22_Witness ==
    /\ bt_pc = "loop"
    /\ bt_i = 4
    /\ IsPrompt(bt_msgs[1])
    /\ [k \in 1..Len(Delivered) |-> Delivered[k].content] = <<"r1", "r2", "r2">>
    /\ bt_st.tool_results_by_id = [k \in {"t1"} |-> "r2"]

(***************************************************************************)
(* truncate_text.  A text is a sequence of characters; "D800" is a lone    *)
(* surrogate, which json.loads returns for the escape \ud800 and which     *)
(* str.encode("utf-8") refuses.                                            *)
(***************************************************************************)
\* Longest text handed to truncate_text and to extract_text.
MaxText == 3
\* Largest limit, in absolute value, handed to truncate_text.
MaxLimit == 4

TextChars == {"a", "E9", "D800"}
Texts == UNION {[1..n -> TextChars] : n \in 0..MaxText}
\* max_chars is int(os.environ.get("OTEL_HOOKS_MAX_CHARS", "20000")): any int.
Limits == (0 - MaxLimit)..MaxLimit

\* s[:n]
SliceTo(s, n) ==
    IF n >= 0 THEN SubSeq(s, 1, IF n < Len(s) THEN n ELSE Len(s))
    ELSE SubSeq(s, 1, IF Len(s) + n > 0 THEN Len(s) + n ELSE 0)

\* s.encode("utf-8") raises UnicodeEncodeError.
EncodeRaises(s) == \E i \in 1..Len(s) : s[i] = "D800"

RECURSIVE Encode(_)
\* s.encode("utf-8")
Encode(s) ==
    IF s = <<>> THEN <<>>
    ELSE (IF Head(s) = "E9" THEN <<"C3", "A9">> ELSE <<Head(s)>>) \o Encode(Tail(s))

\* hashlib.sha256(b).hexdigest(): a digest, told apart by the bytes hashed.
sha256(b) == [digest |-> "sha256", of |-> b]

\* truncate_text(s, max_chars) for a str s: <<"raised">>, or
\* <<"returned", text, metadata>>.
truncate_text(s, max_chars) ==
    LET orig_len == Len(s)
        head == SliceTo(s, max_chars)
    IN IF orig_len <= max_chars
       THEN <<"returned", s, [truncated |-> FALSE, orig_len |-> orig_len]>>
       ELSE IF EncodeRaises(s) THEN <<"raised">>
       ELSE <<"returned", head,
              [truncated |-> TRUE, orig_len |-> orig_len, kept_len |-> Len(head),
               sha256 |-> sha256(Encode(s))]>>

\* truncate_text(s, max_chars) is called.
TruncateCall(s, max_chars) ==
    /\ tt_pc = "idle"
    /\ tt_s' = s
    /\ tt_max_chars' = max_chars
    /\ tt_ret' = truncate_text(s, max_chars)
    /\ tt_pc' = "called"
    /\ UNCHANGED <<tt_again, tlVars, exVars, skVars, rdVars, btVars, hookVars, svVars, clVars>>

\* The same call once more.
TruncateAgain ==
    /\ tt_pc = "called"
    /\ tt_again' = truncate_text(tt_s, tt_max_chars)
    /\ tt_pc' = "repeated"
    /\ UNCHANGED <<tt_s, tt_max_chars, tt_ret, tlVars, exVars, skVars, rdVars, btVars, hookVars, svVars, clVars>>

TruncateNext ==
    \/ \E s \in Texts, max_chars \in Limits : TruncateCall(s, max_chars)
    \/ TruncateAgain

SpecTruncate == Init /\ [][TruncateNext]_vars

\* C23: for any text T and limit L, truncate_text(T, L) returns T and
\* truncated = false when len(T) <= L, and otherwise the first L characters
\* of T with truncated = true, the original length, the kept length L and the
\* digest of the full T; the returned text is a prefix of T no longer than L,
\* and a second call returns the same.
C23_TruncateWithinLimit ==
    tt_pc \in {"called", "repeated"} =>
        /\ tt_ret[1] = "returned"
        /\ Len(tt_ret[2]) <= tt_max_chars
        /\ IsPrefix(tt_ret[2], tt_s)
        /\ IF Len(tt_s) <= tt_max_chars
           THEN tt_ret[2] = tt_s /\ ~tt_ret[3].truncated
           ELSE /\ tt_ret[2] = SubSeq(tt_s, 1, tt_max_chars)
                /\ tt_ret[3].truncated
                /\ tt_ret[3].orig_len = Len(tt_s)
                /\ tt_ret[3].kept_len = tt_max_chars
                /\ tt_ret[3].sha256 = sha256(Encode(tt_s))
        /\ tt_pc = "repeated" => tt_again = tt_ret

(***************************************************************************)
(* Tool configs (src/src/otel_hooks/tools/): register_hook and             *)
(* unregister_hook of ClaudeConfig, KiroConfig and CopilotConfig on a      *)
(* settings dict.  A command is a sequence of words; `HOOK_COMMAND in cmd` *)
(* is Python's substring test.                                             *)
(***************************************************************************)
\* Longest list of hook entries in the settings a tool config is given.
MaxItems == 2
\* Most operations applied to one settings dict.
MaxOps == 3

Tools == {"claude", "kiro", "copilot"}
HOOK_COMMAND == <<"otel-hooks", "hook">>

\* sub in s
Contains(sub, s) ==
    \E i \in 0..(Len(s) - Len(sub)) : SubSeq(s, i + 1, i + Len(sub)) = sub

\* d.get(k, default)
Get(d, k, default) == IF k \in DOMAIN d THEN d[k] ELSE default
\* del d[k]
DictDel(d, k) == [x \in (DOMAIN d) \ {k} |-> d[x]]

\* The key of settings["hooks"] under which the tool lists its stop hooks.
EventKey(tool) ==
    IF tool = "claude" THEN "Stop" ELSE IF tool = "kiro" THEN "stop" ELSE "sessionEnd"

\* The hook command is found in one entry of the list: in a hook of the
\* group (claude), in the entry's "command" (kiro) or "bash" (copilot).
ItemMatches(tool, item) ==
    IF tool = "claude"
    THEN \E i \in 1..Len(Get(item, "hooks", <<>>)) :
             Contains(HOOK_COMMAND, Get(item.hooks[i], "command", <<>>))
    ELSE Contains(HOOK_COMMAND, Get(item, IF tool = "kiro" THEN "command" ELSE "bash", <<>>))

\* The entry register_hook appends.
NewItem(tool) ==
    IF tool = "claude" THEN [hooks |-> <<[type |-> "command", command |-> HOOK_COMMAND]>>]
    ELSE IF tool = "kiro" THEN [command |-> HOOK_COMMAND]
    ELSE [type |-> "command", bash |-> HOOK_COMMAND,
          comment |-> "otel-hooks: emit observability data"]

\* settings.get("hooks", {}).get(<event>, [])
StopHooks(tool, settings) == Get(Get(settings, "hooks", EmptyDict), EventKey(tool), <<>>)

is_hook_registered(tool, settings) ==
    \E i \in 1..Len(StopHooks(tool, settings)) : ItemMatches(tool, StopHooks(tool, settings)[i])

\* register_hook that appends its entry without looking for one.
register_hook_AlwaysAppends(tool, settings) ==
    LET s1 == IF tool = "copilot" /\ "version" \notin DOMAIN settings
              THEN DictSet(settings, "version", 1) ELSE settings
        hooks == Get(s1, "hooks", EmptyDict)
        stop == Get(hooks, EventKey(tool), <<>>)
    IN DictSet(s1, "hooks", DictSet(hooks, EventKey(tool), Append(stop, NewItem(tool))))

\* The two setdefault calls (three for copilot, with "version"), the search
\* for the command and the append when it is not found.
register_hook(tool, settings) ==
    LET s1 == IF tool = "copilot" /\ "version" \notin DOMAIN settings
              THEN DictSet(settings, "version", 1) ELSE settings
        hooks == Get(s1, "hooks", EmptyDict)
        stop == Get(hooks, EventKey(tool), <<>>)
        found == \E i \in 1..Len(stop) : ItemMatches(tool, stop[i])
    IN DictSet(s1, "hooks",
               DictSet(hooks, EventKey(tool),
                       IF found THEN stop ELSE Append(stop, NewItem(tool))))

\* Index of the first entry of a list that holds the command, 0 when none.
FirstMatch(tool, stop) ==
    IF \E i \in 1..Len(stop) : ItemMatches(tool, stop[i])
    THEN CHOOSE i \in 1..Len(stop) :
             ItemMatches(tool, stop[i]) /\ \A j \in 1..(i - 1) : ~ItemMatches(tool, stop[j])
    ELSE 0

\* unregister_hook that removes the first entry holding the command only.
unregister_hook_FirstOnly(tool, settings) ==
    LET stop == StopHooks(tool, settings)
        k == FirstMatch(tool, stop)
        kept == IF k = 0 THEN stop
                ELSE SubSeq(stop, 1, k - 1) \o SubSeq(stop, k + 1, Len(stop))
    IN IF stop = <<>> THEN settings
       ELSE DictSet(settings, "hooks",
                    IF kept = <<>> THEN DictDel(settings["hooks"], EventKey(tool))
                    ELSE DictSet(settings["hooks"], EventKey(tool), kept))

\* The entries holding the command are filtered out; an emptied list is
\* deleted from settings["hooks"].
unregister_hook(tool, settings) ==
    LET stop == StopHooks(tool, settings)
        kept == SelectSeq(stop, LAMBDA item : ~ItemMatches(tool, item))
    IN IF stop = <<>> THEN settings
       ELSE DictSet(settings, "hooks",
                    IF kept = <<>> THEN DictDel(settings["hooks"], EventKey(tool))
                    ELSE DictSet(settings["hooks"], EventKey(tool), kept))

\* The keys of settings["env"] the hook reads: a key is its words.
OTEL_HOOKS_PROVIDER == <<"OTEL", "HOOKS", "PROVIDER">>
OTEL_HOOKS_ENABLED == <<"OTEL", "HOOKS", "ENABLED">>

\* settings.setdefault("env", {})[key] = value
set_env(settings, key, value) ==
    DictSet(settings, "env", DictSet(Get(settings, "env", EmptyDict), key, value))

\* settings.get("env", {}).get(key): None is "".
get_env(settings, key) == Get(Get(settings, "env", EmptyDict), key, "")

\* get_provider: the provider named in the settings, "" for None.
get_provider(settings) == get_env(settings, OTEL_HOOKS_PROVIDER)

\* An is_enabled that looks at the environment flag alone.
is_enabled_FlagOnly(settings) ==
    get_env(settings, OTEL_HOOKS_ENABLED) = "true"

\* ClaudeConfig.is_enabled
is_enabled(settings) ==
    /\ is_hook_registered("claude", settings)
    /\ get_env(settings, OTEL_HOOKS_ENABLED) = "true"

\* Commands found in settings files: the hook command, another command, and
\* a command line that wraps the hook command.
Commands == {HOOK_COMMAND, <<"echo">>, <<"time", "otel-hooks", "hook", "-v">>}

\* The entries a tool's stop-hook list may hold.
Items(tool) ==
    IF tool = "claude"
    THEN {[hooks |-> <<[type |-> "command", command |-> c]>>] : c \in Commands}
         \cup {[hooks |-> <<[type |-> "command", command |-> <<"echo">>],
                            [type |-> "command", command |-> HOOK_COMMAND]>>],
               [matcher |-> "Bash"]}
    ELSE IF tool = "kiro"
    THEN {[command |-> c] : c \in Commands} \cup {[timeout_ms |-> 5]}
    ELSE {[type |-> "command", bash |-> c] : c \in Commands} \cup {[type |-> "command"]}

\* The settings a tool config is given: no "hooks", "hooks" without the
\* tool's event, and the event with a list of entries; other keys beside.
SettingsOf(tool) ==
    LET lists == UNION {[1..n -> Items(tool)] : n \in 0..MaxItems}
        env == DictSet(EmptyDict, OTEL_HOOKS_ENABLED, "true")
    IN {EmptyDict, [env |-> env], [hooks |-> EmptyDict],
        [hooks |-> [Other |-> <<[command |-> HOOK_COMMAND]>>]]}
       \cup {[hooks |-> DictSet(EmptyDict, EventKey(tool), l)] : l \in lists}
       \cup {[env |-> env,
              hooks |-> DictSet([Other |-> <<>>], EventKey(tool), l)] : l \in lists}

\* settings = cfg.load_settings(scope)
ToolLoad(tool, settings) ==
    /\ tl_tool = "none"
    /\ tl_tool' = tool
    /\ tl_start' = settings
    /\ tl_prev' = settings
    /\ tl_settings' = settings
    /\ UNCHANGED <<tl_ops, ttVars, exVars, skVars, rdVars, btVars, hookVars, svVars, clVars>>

\* settings = cfg.register_hook(settings)
ToolRegister ==
    /\ tl_tool # "none"
    /\ Len(tl_ops) < MaxOps
    /\ tl_prev' = tl_settings
    /\ tl_settings' = register_hook(tl_tool, tl_settings)
    /\ tl_ops' = Append(tl_ops, "register")
    /\ UNCHANGED <<tl_tool, tl_start, ttVars, exVars, skVars, rdVars, btVars, hookVars, svVars, clVars>>

\* settings = cfg.unregister_hook(settings)
ToolUnregister ==
    /\ tl_tool # "none"
    /\ Len(tl_ops) < MaxOps
    /\ tl_prev' = tl_settings
    /\ tl_settings' = unregister_hook(tl_tool, tl_settings)
    /\ tl_ops' = Append(tl_ops, "unregister")
    /\ UNCHANGED <<tl_tool, tl_start, ttVars, exVars, skVars, rdVars, btVars, hookVars, svVars, clVars>>

ToolsNext ==
    \/ \E tool \in Tools : \E settings \in SettingsOf(tool) : ToolLoad(tool, settings)
    \/ ToolRegister
    \/ ToolUnregister

SpecTools == Init /\ [][ToolsNext]_vars

\* The hook commands in the tool's stop-hook list that hold HOOK_COMMAND.
Occurrences(tool, settings) ==
    LET stop == StopHooks(tool, settings)
    IN IF tool = "claude"
       THEN Cardinality({ij \in (1..Len(stop)) \X (1..MaxItems) :
                /\ ij[2] <= Len(Get(stop[ij[1]], "hooks", <<>>))
                /\ Contains(HOOK_COMMAND,
                            Get(stop[ij[1]].hooks[ij[2]], "command", <<>>))})
       ELSE Cardinality({i \in 1..Len(stop) : ItemMatches(tool, stop[i])})

LastOp == IF tl_ops = <<>> THEN "none" ELSE tl_ops[Len(tl_ops)]

\* C24: register_hook is idempotent: applied to its own result it returns
\* that result, on which is_hook_registered is true; and starting from empty
\* settings the hook command is there exactly once, however often
\* register_hook was applied.
C24_RegisterIdempotent ==
    LastOp = "register" =>
        /\ register_hook(tl_tool, tl_settings) = tl_settings
        /\ is_hook_registered(tl_tool, tl_settings)
        /\ (tl_start = EmptyDict /\ \A k \in 1..Len(tl_ops) : tl_ops[k] = "register")
              => Occurrences(tl_tool, tl_settings) = 1

\* register_hook applied three times to empty settings.
C24_Witness ==
    /\ tl_tool = "claude"
    /\ tl_start = EmptyDict
    /\ tl_ops = <<"register", "register", "register">>
    /\ tl_settings = [hooks |-> [Stop |-> <<NewItem("claude")>>]]

\* C25: unregister_hook is idempotent on settings in which the hook is
\* registered: applied to its own result it returns that result, on which
\* is_hook_registered is false.
C25_UnregisterIdempotent ==
    (LastOp = "unregister" /\ is_hook_registered(tl_tool, tl_prev)) =>
        /\ unregister_hook(tl_tool, tl_settings) = tl_settings
        /\ ~is_hook_registered(tl_tool, tl_settings)

\* The hook was registered in two entries beside another entry, and
\* unregister_hook was applied twice.
C25_Witness ==
    /\ tl_tool = "kiro"
    /\ Occurrences(tl_tool, tl_start) = 2
    /\ tl_ops = <<"unregister", "unregister">>
    /\ tl_settings = tl_prev
    /\ ~is_hook_registered(tl_tool, tl_settings)

(***************************************************************************)
(* extract_text.  A content is what get_content returns: a str, a list or  *)
(* something else (null, a number).  The items of a list are dicts, which  *)
(* here are records read with Get, or bare strings.                        *)
(***************************************************************************)
\* Longest content list handed to extract_text.
MaxFrags == 3

NullContent == [kind |-> "null"]
NumberContent == [kind |-> "number"]
TextFrag(t) == [type |-> "text", text |-> t]
ToolUse(id, name, input) == [type |-> "tool_use", id |-> id, name |-> name, input |-> input]
\* A list item that is a str, not a dict.
BareStr(t) == [str |-> t]

RECURSIVE Join(_)
\* "\n".join(parts)
Join(parts) ==
    IF parts = <<>> THEN <<>>
    ELSE IF Len(parts) = 1 THEN parts[1]
    ELSE parts[1] \o <<LF>> \o Join(Tail(parts))

RECURSIVE TextParts(_)
\* The loop of extract_text over a list: parts.
TextParts(items) ==
    IF items = <<>> THEN <<>>
    ELSE LET x == Head(items)
         IN (IF "str" \in DOMAIN x THEN <<x.str>>
             ELSE IF Get(x, "type", "") = "text" THEN <<Get(x, "text", <<>>)>>
             ELSE <<>>) \o TextParts(Tail(items))

\* extract_text whose join keeps the empty parts.
extract_text_KeepsEmpty(content) ==
    IF content.kind = "str" THEN content.text
    ELSE IF content.kind = "list" THEN Join(TextParts(content.items))
    ELSE <<>>

extract_text(content) ==
    IF content.kind = "str" THEN content.text
    ELSE IF content.kind = "list"
    THEN Join(SelectSeq(TextParts(content.items), LAMBDA part : part # <<>>))
    ELSE <<>>

\* The items of the content lists handed to extract_text.
FragAlphabet ==
    {TextFrag(<<"a">>), TextFrag(<<"E9", "a">>), TextFrag(<<>>), [type |-> "text"],
     ToolUse("t1", "Bash", "ls"), Frag("tool_result", "t1", "r1"),
     [type |-> "image"], BareStr(<<"a">>)}

ContentSet ==
    {NullContent, NumberContent}
    \cup {StrContent(t) : t \in Texts}
    \cup {ListContent(xs) : xs \in UNION {[1..n -> FragAlphabet] : n \in 0..MaxFrags}}

\* extract_text(content) is called.
ExtractCall(content) ==
    /\ ex_pc = "idle"
    /\ ex_content' = content
    /\ ex_ret' = extract_text(content)
    /\ ex_pc' = "called"
    /\ UNCHANGED <<ttVars, tlVars, skVars, rdVars, btVars, hookVars, svVars, clVars>>

\* The caller takes the result.
ExtractDone ==
    /\ ex_pc = "called"
    /\ ex_pc' = "done"
    /\ UNCHANGED <<ex_content, ex_ret, ttVars, tlVars, skVars, rdVars, btVars, hookVars, svVars, clVars>>

ExtractNext ==
    \/ \E content \in ContentSet : ExtractCall(content)
    \/ ExtractDone

SpecExtract == Init /\ [][ExtractNext]_vars

\* Every item of the list is a dict, a fragment with or without a type.
TypedFragments(content) ==
    content.kind = "list"
    /\ \A i \in 1..Len(content.items) : "str" \notin DOMAIN content.items[i]

RECURSIVE TextsOf(_)
\* The texts of the "text" fragments of a list of dicts, in order.
TextsOf(items) ==
    IF items = <<>> THEN <<>>
    ELSE (IF Get(Head(items), "type", "") = "text"
          THEN <<Get(Head(items), "text", <<>>)>> ELSE <<>>) \o TextsOf(Tail(items))

\* C27 as stated: a str is returned unchanged, a list of typed fragments
\* yields the texts of its "text" fragments, in order, joined by newlines,
\* and any other shape yields the empty string.
C27_ExtractJoinsTextFragments ==
    ex_pc = "called" =>
        /\ ex_content.kind = "str" => ex_ret = ex_content.text
        /\ TypedFragments(ex_content) => ex_ret = Join(TextsOf(ex_content.items))
        /\ ex_content.kind \notin {"str", "list"} => ex_ret = <<>>

\* C27, amended: a str is returned unchanged, a list of typed fragments
\* yields the non-empty texts of its "text" fragments, in order, joined by
\* newlines (a "text" fragment whose text is empty or missing adds neither
\* text nor newline), and any other shape yields the empty string.
C27_ExtractJoinsNonEmptyTexts ==
    ex_pc = "called" =>
        /\ ex_content.kind = "str" => ex_ret = ex_content.text
        /\ TypedFragments(ex_content)
              => ex_ret = Join(SelectSeq(TextsOf(ex_content.items), LAMBDA t : t # <<>>))
        /\ ex_content.kind \notin {"str", "list"} => ex_ret = <<>>

\* Two texts with an empty text and a tool_use between them.
C27_Witness ==
    /\ ex_pc = "called"
    /\ ex_content = ListContent(<<TextFrag(<<"a">>), TextFrag(<<>>),
                                  ToolUse("t1", "Bash", "ls")>>)
    /\ ex_ret = <<"a">>

(***************************************************************************)
(* The sinks (src/src/otel_hooks/providers/): what emit_turn of            *)
(* OTLPProvider, LangfuseProvider and DatadogProvider computes from a Turn *)
(* before it opens its spans: the two texts, the model and tool_calls.     *)
(* The three providers share this code line for line.                      *)
(***************************************************************************)
\* Most assistant messages in a Turn handed to emit_turn.
MaxAssistants == 2
\* MAX_CHARS, the default limit of truncate_text (20000 unless
\* OTEL_HOOKS_MAX_CHARS is set), scaled to the texts of the model.
MAX_CHARS == 2

\* The message with message.model set.
WithModel(msg, model) ==
    [k \in (DOMAIN msg) \cup {"model"} |-> IF k = "model" THEN model ELSE msg[k]]

get_content(msg) == msg.content

\* m.get("model") or "claude"
get_model(msg) == IF Get(msg, "model", "") # "" THEN msg.model ELSE "claude"

iter_tool_uses(content) ==
    IF content.kind = "list"
    THEN SelectSeq(content.items,
                   LAMBDA x : "str" \notin DOMAIN x /\ Get(x, "type", "") = "tool_use")
    ELSE <<>>

\* One entry of calls: id, name and input of a tool_use fragment.
ToolCall(tu) ==
    [id |-> Get(tu, "id", ""),
     name |-> IF Get(tu, "name", "") # "" THEN tu.name ELSE "unknown",
     input |-> Get(tu, "input", EmptyDict)]

RECURSIVE MapToolCall(_)
MapToolCall(tus) ==
    IF tus = <<>> THEN <<>> ELSE <<ToolCall(Head(tus))>> \o MapToolCall(Tail(tus))

RECURSIVE tool_calls_from_assistants(_)
tool_calls_from_assistants(assistant_msgs) ==
    IF assistant_msgs = <<>> THEN <<>>
    ELSE MapToolCall(iter_tool_uses(get_content(Head(assistant_msgs))))
         \o tool_calls_from_assistants(Tail(assistant_msgs))

\* json.dumps(v, ensure_ascii=False) of a result that is no str.
json_dumps(v) ==
    IF v.kind = "null" THEN <<"n", "u", "l", "l">>
    ELSE IF v.kind = "list" /\ v.items = <<>> THEN <<"[", "]">>
    ELSE <<"?">>

\* out_str, out_trunc: the result as the text put into the payload.
Output(out_raw) ==
    truncate_text(IF out_raw.kind = "str" THEN out_raw.text ELSE json_dumps(out_raw),
                  MAX_CHARS)[2]

RECURSIVE Annotate(_, _)
\* for c in tool_calls: c["output"] = ...
Annotate(calls, table) ==
    IF calls = <<>> THEN <<>>
    ELSE LET c == Head(calls)
             out == IF c.id # "" /\ c.id \in DOMAIN table
                    THEN Output(table[c.id]) ELSE NullContent
         IN <<[id |-> c.id, name |-> c.name, input |-> c.input, output |-> out]>>
            \o Annotate(Tail(calls), table)

\* emit_turn that takes the completion from the first assistant message.
emit_turn_FirstAssistantText(turn) ==
    [user_text |-> truncate_text(extract_text(get_content(turn.user_msg)), MAX_CHARS)[2],
     assistant_text |->
         truncate_text(extract_text(get_content(turn.assistant_msgs[1])), MAX_CHARS)[2],
     model |-> get_model(turn.assistant_msgs[1]),
     tool_calls |-> Annotate(tool_calls_from_assistants(turn.assistant_msgs),
                             turn.tool_results_by_id)]

\* The values emit_turn computes before it opens its spans.
emit_turn(turn) ==
    [user_text |-> truncate_text(extract_text(get_content(turn.user_msg)), MAX_CHARS)[2],
     assistant_text |->
         truncate_text(extract_text(get_content(
             turn.assistant_msgs[Len(turn.assistant_msgs)])), MAX_CHARS)[2],
     model |-> get_model(turn.assistant_msgs[1]),
     tool_calls |-> Annotate(tool_calls_from_assistants(turn.assistant_msgs),
                             turn.tool_results_by_id)]

\* The assistant messages of the turns handed to the sink.
SinkAssistants ==
    {WithModel(Msg("assistant", "assistant", "m1",
                   ListContent(<<TextFrag(<<"a">>), ToolUse("t1", "Bash", "ls"),
                                 ToolUse("", "Read", "f")>>)), "opus"),
     WithModel(Msg("assistant", "assistant", "m2",
                   ListContent(<<ToolUse("t2", "Edit", "f"), TextFrag(<<"E9", "a", "a">>),
                                 ToolUse("t1", "Bash", "ls")>>)), "haiku"),
     Msg("assistant", "assistant", "", StrContent(<<"a", "a">>)),
     Msg("assistant", "assistant", "m3", ListContent(<<[type |-> "tool_use"]>>))}

\* The results a tool-result table holds: a str, null, an empty list.
SinkResults == {StrContent(<<"a", "E9", "a">>), StrContent(<<"a">>), NullContent}

\* The turns handed to the sink: a user message, one or more assistant
\* messages, a table over some of the ids "t1" and "t2".
SinkTurns ==
    {Turn(u, as, tr) :
        u \in {Msg("user", "user", "", StrContent(<<"a", "a", "a">>)),
               Msg("user", "user", "", ListContent(<<TextFrag(<<"a">>)>>))},
        as \in UNION {[1..n -> SinkAssistants] : n \in 1..MaxAssistants},
        tr \in UNION {[ids -> SinkResults] : ids \in SUBSET {"t1", "t2"}}}

\* provider.emit_turn(session_id, turn_num, turn, transcript_path)
SinkEmit(turn) ==
    /\ sk_pc = "idle"
    /\ sk_turn' = turn
    /\ sk_payload' = emit_turn(turn)
    /\ sk_pc' = "built"
    /\ UNCHANGED <<ttVars, tlVars, exVars, rdVars, btVars, hookVars, svVars, clVars>>

\* The spans are written and emit_turn returns.
SinkReturn ==
    /\ sk_pc = "built"
    /\ sk_pc' = "returned"
    /\ UNCHANGED <<sk_turn, sk_payload, ttVars, tlVars, exVars, rdVars, btVars,
                   hookVars, svVars, clVars>>

SinkNext ==
    \/ \E turn \in SinkTurns : SinkEmit(turn)
    \/ SinkReturn

SpecSink == Init /\ [][SinkNext]_vars

\* The first n characters of a text, the whole text when it is shorter.
FirstChars(t, n) == [i \in 1..(IF n < Len(t) THEN n ELSE Len(t)) |-> t[i]]

\* The tool_use fragments of the k-th assistant message of the turn.
UsesOf(k) ==
    LET c == sk_turn.assistant_msgs[k].content
    IN IF c.kind = "list"
       THEN SelectSeq(c.items, LAMBDA x : Get(x, "type", "") = "tool_use")
       ELSE <<>>

\* The number of tool_use fragments of the first k assistant messages.
RECURSIVE UsesBefore(_)
UsesBefore(k) == IF k = 0 THEN 0 ELSE UsesBefore(k - 1) + Len(UsesOf(k))

\* C26: the payload built from a Turn carries the (truncated) text of the
\* last assistant message, the model name of the first assistant message
\* ("claude" when it names none), and one tool invocation for each tool_use
\* fragment of the assistant messages, in message order then fragment order,
\* with the fragment's id, name and input and with the result the turn's
\* table holds under that id, rendered as text, or null when the id is empty
\* or the table has no entry for it.
C26_PayloadFromTurn ==
    sk_pc = "built" =>
        LET as == sk_turn.assistant_msgs
            n == Len(as)
            calls == sk_payload.tool_calls
            table == sk_turn.tool_results_by_id
        IN /\ sk_payload.assistant_text
                = FirstChars(extract_text(as[n].content), MAX_CHARS)
           /\ sk_payload.user_text
                = FirstChars(extract_text(sk_turn.user_msg.content), MAX_CHARS)
           /\ sk_payload.model = IF "model" \in DOMAIN as[1] THEN as[1].model ELSE "claude"
           /\ Len(calls) = UsesBefore(n)
           /\ \A k \in 1..n : \A j \in 1..Len(UsesOf(k)) :
                 LET c == calls[UsesBefore(k - 1) + j]
                     tu == UsesOf(k)[j]
                 IN /\ c.id = Get(tu, "id", "")
                    /\ "name" \in DOMAIN tu => c.name = tu.name
                    /\ "input" \in DOMAIN tu => c.input = tu.input
                    /\ c.output = IF c.id = "" \/ c.id \notin DOMAIN table THEN NullContent
                                  ELSE IF table[c.id].kind = "str"
                                  THEN FirstChars(table[c.id].text, MAX_CHARS)
                                  ELSE FirstChars(json_dumps(table[c.id]), MAX_CHARS)

\* Two assistant messages with different models and texts and four tool
\* invocations between them; the table holds a result for "t1" only.
C26_Witness ==
    /\ sk_pc = "built"
    /\ Len(sk_turn.assistant_msgs) = 2
    /\ DOMAIN sk_turn.tool_results_by_id = {"t1"}
    /\ sk_payload.model = "opus"
    /\ sk_payload.assistant_text = <<"E9", "a">>
    /\ [k \in 1..Len(sk_payload.tool_calls) |-> sk_payload.tool_calls[k].id]
          = <<"t1", "", "t2", "t1">>
    /\ sk_payload.tool_calls[1].output = <<"a", "E9">>
    /\ sk_payload.tool_calls[2].output = NullContent
    /\ sk_payload.tool_calls[3].output = NullContent
    /\ sk_payload.tool_calls[4].output = <<"a", "E9">>

(***************************************************************************)
(* The open turn of build_turns: tool-result messages and the assistant    *)
(* list.                                                                   *)
(***************************************************************************)
\* C28: a user-role message whose content holds a tool_result fragment
\* neither closes the open turn nor opens one: the pass over it leaves the
\* current user message, the assistant order, the assistant contents and the
\* finished turns as they were; only the tool-result table may change.
C28_ToolResultKeepsTurn ==
    (bt_i > 0 /\ is_tool_result(bt_msgs[bt_i])) =>
        /\ bt_st.current_user = bt_prev.current_user
        /\ bt_st.assistant_order = bt_prev.assistant_order
        /\ bt_st.assistant_latest = bt_prev.assistant_latest
        /\ bt_st.turns = bt_prev.turns

\* A prompt, a reply and then a tool-result message: the table has changed,
\* the turn is still open and nothing is finished.
C28_Witness ==
    /\ bt_pc = "loop"
    /\ bt_i = 3
    /\ IsPrompt(bt_msgs[1])
    /\ get_role(bt_msgs[2]) = "assistant"
    /\ is_tool_result(bt_msgs[3])
    /\ bt_st.tool_results_by_id # bt_prev.tool_results_by_id
    /\ bt_st.current_user = <<bt_msgs[1]>>
    /\ bt_st.turns = <<>>

\* The assistant messages taken into the open turn so far: those after the
\* last prompt.
TurnAssistants ==
    IF TurnStart(bt_msgs, bt_i) = 0 THEN <<>>
    ELSE SelectSeq(SubSeq(bt_msgs, TurnStart(bt_msgs, bt_i) + 1, bt_i),
                   LAMBDA m : get_role(m) = "assistant")

\* The assistant list the open turn would be flushed with.
OpenAssistants == AssistantsOf(bt_st.assistant_order, bt_st.assistant_latest)

RECURSIVE FirstSeen(_, _)
\* The messages of a list whose id was not seen before them, in order.
FirstSeen(msgs, seen) ==
    IF msgs = <<>> THEN <<>>
    ELSE (IF Head(msgs).id \in seen THEN <<>> ELSE <<Head(msgs)>>)
         \o FirstSeen(Tail(msgs), seen \cup {Head(msgs).id})

\* The last message of a list that carries the id.
LastWithId(msgs, id) ==
    msgs[CHOOSE k \in 1..Len(msgs) :
             msgs[k].id = id /\ \A j \in (k + 1)..Len(msgs) : msgs[j].id # id]

\* C29: within the open turn, the entries of the assistant list that carry
\* an id are one per id seen, in the order in which the ids first appeared,
\* and the entry of an id is the last message seen with that id.
C29_AssistantsByFirstSeenId ==
    bt_pc \in {"loop", "done"} =>
        LET withId == SelectSeq(TurnAssistants, LAMBDA m : m.id # "")
            first == FirstSeen(withId, {})
        IN SelectSeq(OpenAssistants, LAMBDA m : m.id # "")
              = [k \in 1..Len(first) |-> LastWithId(withId, first[k].id)]

\* C30: an assistant message without an id that arrives while a turn is open
\* becomes a new entry at the end of the turn's assistant list, and the
\* entries without an id are, in order, all the messages without an id the
\* turn has taken: none has been overwritten.
C30_NoIdAlwaysNewEntry ==
    bt_pc \in {"loop", "done"} =>
        /\ (bt_i > 0 /\ bt_prev.current_user # <<>>
              /\ get_role(bt_msgs[bt_i]) = "assistant" /\ bt_msgs[bt_i].id = "")
              => OpenAssistants
                    = Append(AssistantsOf(bt_prev.assistant_order, bt_prev.assistant_latest),
                             bt_msgs[bt_i])
        /\ SelectSeq(OpenAssistants, LAMBDA m : m.id = "")
              = SelectSeq(TurnAssistants, LAMBDA m : m.id = "")

(***************************************************************************)
(* The tool-result table of a finished turn.                               *)
(***************************************************************************)
\* The first prompt after position p, Len(msgs) + 1 when there is none.
NextPrompt(msgs, p) ==
    IF \E q \in (p + 1)..Len(msgs) : IsPrompt(msgs[q])
    THEN CHOOSE q \in (p + 1)..Len(msgs) :
             IsPrompt(msgs[q]) /\ \A j \in (p + 1)..(q - 1) : ~IsPrompt(msgs[j])
    ELSE Len(msgs) + 1

\* The table of the results delivered under an id in a stretch of messages:
\* for each id, the content delivered last.
TableOf(msgs) ==
    LET d == SelectSeq(ResultsIn(msgs), LAMBDA f : f.tool_use_id # "")
    IN [id \in {d[k].tool_use_id : k \in 1..Len(d)} |->
           d[CHOOSE k \in 1..Len(d) :
                 d[k].tool_use_id = id
                 /\ \A j \in (k + 1)..Len(d) : d[j].tool_use_id # id].content]

\* The prompts whose turn is finished: the replied prompts of the whole list
\* once build_turns has returned, before that the replied prompts among the
\* messages consumed that a later prompt has closed.
FinishedPrompts ==
    IF bt_pc = "done" THEN {p \in PromptPositions(bt_msgs) : Replied(bt_msgs, p)}
    ELSE LET seen == SubSeq(bt_msgs, 1, bt_i)
         IN {p \in PromptPositions(seen) :
                Replied(seen, p) /\ \E q \in PromptPositions(seen) : q > p}

\* The turns finished so far: the returned list once build_turns is done.
FinishedTurns == IF bt_pc = "done" THEN bt_out ELSE bt_st.turns

\* C31: the table of a finished turn holds exactly the results delivered
\* after the turn's user message and before the next prompt; results
\* delivered during an earlier turn or before any prompt are not in it, and
\* the table of the open turn starts empty at its prompt.
C31_TableScopedToTurn ==
    bt_pc \in {"loop", "done"} =>
        /\ Len(FinishedTurns) = Cardinality(FinishedPrompts)
        /\ \A k \in 1..Len(FinishedTurns) :
              LET p == Nth(FinishedPrompts, k)
              IN /\ FinishedTurns[k].user_msg = bt_msgs[p]
                 /\ FinishedTurns[k].tool_results_by_id
                       = TableOf(SubSeq(bt_msgs, p + 1, NextPrompt(bt_msgs, p) - 1))
        /\ (bt_i > 0 /\ IsPrompt(bt_msgs[bt_i])) => bt_st.tool_results_by_id = EmptyDict

\* A turn that is finished stays as it is, table included, whatever
\* messages follow (flush_turn attaches a copy, dict(tool_results_by_id)).
FinishedTurnsFrozen ==
    [][\A k \in 1..Len(bt_st.turns) :
          Len(bt_st'.turns) >= k /\ bt_st'.turns[k] = bt_st.turns[k]]_vars

\* A turn with a result for "t1" is finished by the next prompt, whose own
\* table is empty.
C31_Witness ==
    /\ bt_pc = "loop"
    /\ bt_i = 4
    /\ Len(bt_st.turns) = 1
    /\ is_tool_result(bt_msgs[3])
    /\ IsPrompt(bt_msgs[4])
    /\ "t1" \in DOMAIN bt_st.turns[1].tool_results_by_id
    /\ bt_st.tool_results_by_id = EmptyDict

(***************************************************************************)
(* Serialized invocations of one session in which nothing fails: the host  *)
(* appends user and assistant lines, and p1 is invoked again and again,    *)
(* each invocation reading what the transcript holds when it gets there.   *)
(***************************************************************************)
\* The steps of an invocation that has the lock to itself.
SerialSteps(p) ==
    \/ LockAcquire(p)
    \/ Load(p)
    \/ Read(p, TRUE)
    \/ \E raises \in BOOLEAN : Emit(p, raises)
    \/ Save(p, TRUE)
    \/ Unlock(p)
    \/ \E raises \in BOOLEAN : Flush(p, raises)
    \/ Finally(p)
    \/ Return(p)

SerialNext ==
    \/ \E b \in {"u", "a", LF} : HostWrites(b)
    \/ MainGuards("p1", Payload("object", "s1", "absent", "t1", "absent"))
    \/ SerialSteps("p1")

SpecSerial == Init /\ [][SerialNext]_vars

\* The messages of the whole transcript, read in one go from offset 0.
WholeMessages == read_new_jsonl(transcript, TRUE, SessionState(0, <<>>, 0)).msgs

\* C32: once every user message of the transcript has its replies and an
\* invocation has ended with the persisted offset at the end of the file, the
\* turns passed to emit_turn over all invocations are, in order, the turns
\* build_turns makes of the whole transcript.
C32_NoTurnLostToBoundaries ==
    ( /\ pc["p1"] = "done"
      /\ PersistedOffset = Len(transcript)
      /\ WholeMessages # <<>>
      /\ \A i \in PromptPositions(WholeMessages) : Replied(WholeMessages, i) )
    => dispatched = build_turns(WholeMessages)

\* C33: over the serialized invocations of one session, whatever fails
\* (save_state without effect, the state file lost or damaged between
\* invocations), no turn number is passed to emit_turn twice and emit_turn is
\* not called more often than the transcript has turns.
C33_NoDuplicateDispatch ==
    /\ ~collision
    /\ Len(dispatched) <= TranscriptTurns

(***************************************************************************)
(* Progress of the cursor.  The hook is invoked for the session again and  *)
(* again, for ever (the count of invocations stops at MaxInv), on a        *)
(* transcript of lines of any content; nothing of the environment fails.   *)
(***************************************************************************)
\* main() entered once more, up to the with-block (lines 396-420).
MainRepeated(p, stdin) ==
    LET e == extract_session_and_transcript(read_hook_payload(stdin))
    IN /\ pc[p] \in {"idle", "done"}
       /\ create_provider("langfuse", TRUE)
       /\ ~e.raised /\ e.session_id # "" /\ e.transcript_path # ""
       /\ Exists(e.transcript_path)
       /\ started' = IF started < MaxInv THEN started + 1 ELSE started
       /\ provider' = [provider EXCEPT ![p] = "live"]
       /\ pc' = [pc EXCEPT ![p] = "lock"]
       /\ rc' = [rc EXCEPT ![p] = "running"]
       /\ session' = [session EXCEPT ![p] = <<e.session_id, e.transcript_path>>]
       /\ sinkLog' = [sinkLog EXCEPT ![p] = <<>>]
       /\ Fresh(p)
       /\ UNCHANGED <<transcript, stateFile, stateShape, lockHolder, histVars, rdVars, btVars, svVars, fnVars>>

ProgressNext ==
    \/ \E b \in HookTokens \cup {LF} : HostWrites(b)
    \/ MainRepeated("p1", Payload("object", "s1", "absent", "t1", "absent"))
    \/ SerialSteps("p1")

SpecProgress ==
    /\ Init
    /\ [][ProgressNext]_vars
    /\ WF_<<pc, emitted>>(Advance("p1"))
    /\ WF_<<pc>>(MainRepeated("p1", Payload("object", "s1", "absent", "t1", "absent")))

\* The end of the last complete line of the transcript.
LastNewline ==
    LET lfs == {i \in 1..Len(transcript) : transcript[i] = LF}
    IN IF lfs = {} THEN 0 ELSE CHOOSE i \in lfs : \A j \in lfs : j <= i

\* C34: every newline-terminated line of the transcript, whatever it holds,
\* is eventually covered by the persisted offset.
C34_CursorProgress ==
    \A n \in 1..(2 * MaxLines) : (LastNewline >= n) ~> (PersistedOffset >= n)

(***************************************************************************)
(* Two sessions on one state file: p1 is invoked for ("s1", "t1") and p2   *)
(* for ("s2", "t1"), one after the other or overlapping.                   *)
(***************************************************************************)
SessionsNext ==
    \/ \E b \in {"u", "a", LF} : HostWrites(b)
    \/ MainGuards("p1", Payload("object", "s1", "absent", "t1", "absent"))
    \/ MainGuards("p2", Payload("object", "s2", "absent", "t1", "absent"))
    \/ \E p \in Procs : Invocation(p)

SpecSessions == Init /\ [][SessionsNext]_vars

\* The step is the save of p, and every record of the state file but that of
\* the session of p is after it what it was before it.
OthersKept(p) ==
    (pc[p] = "save" /\ pc'[p] = "unlock")
    => \A k \in (DOMAIN stateFile \cup DOMAIN stateFile') \ {Key(p)} :
          /\ k \in DOMAIN stateFile
          /\ k \in DOMAIN stateFile'
          /\ stateFile'[k] = stateFile[k]

\* C35 as stated: an invocation leaves the persisted record of every other
\* session as it was, for serialized and for overlapping invocations.
C35_OtherRecordsUnchanged == [][\A p \in Procs : OthersKept(p)]_vars

\* C35: as long as no invocation has entered its with-block without the lock,
\* an invocation leaves the persisted record of every other session as it
\* was.
C35_OtherRecordsUnchangedUnderLock ==
    [][~everUnlocked' => \A p \in Procs : OthersKept(p)]_vars

\* Both sessions have a record, p2 has just saved its own next to the one p1
\* saved, and every invocation went through the lock.
C35_Witness ==
    /\ ~everUnlocked
    /\ pc["p2"] = "unlock"
    /\ saveStatus["p2"] = "ok"
    /\ DOMAIN stateFile = {state_key("s1", "t1"), state_key("s2", "t1")}
    /\ stateFile[state_key("s1", "t1")].offset > 0

(***************************************************************************)
(* The SessionState read_new_jsonl returns is the one main persists.       *)
(***************************************************************************)
\* The text of the transcript from its last newline before `offset` up to
\* `offset`.
TailBefore(file, offset) ==
    LET fragments == Split(Decode(SubSeq(file, 1, offset)))
    IN fragments[Len(fragments)]

\* C36: in every SessionState the reader returns for an append-only
\* transcript, offset is at most the file size, buffer holds no newline, and
\* buffer is the transcript text between the last newline before offset and
\* offset.
C36_BufferIsTailBeforeOffset ==
    /\ rd_ss.offset <= Len(rd_file)
    /\ \A i \in 1..Len(rd_ss.buffer) : rd_ss.buffer[i] # LF
    /\ rd_ss.buffer = TailBefore(rd_file, rd_ss.offset)

\* C37: an invocation that is past its with-block, however it left it, does
\* not hold the state lock; an invocation that comes to the lock when every
\* other one has ended finds it free.
C37_LockReleasedOnEveryExit ==
    /\ \A p \in Procs :
          pc[p] \in {"idle", "flush", "finally", "return", "done"} => lockHolder # p
    /\ \A p \in Procs :
          (pc[p] = "lock" /\ \A q \in Procs \ {p} : pc[q] \in {"idle", "done"}) => LockFree

\* An invocation that took the lock and read the transcript has left its
\* with-block by an exception (build_turns raised), and the lock is free.
C37_Witness ==
    /\ pc["p1"] = "finally"
    /\ ret["p1"] = "raised"
    /\ ~everUnlocked
    /\ ss["p1"].offset > 0
    /\ lockHolder = "none"

(***************************************************************************)
(* What unregister_hook leaves alone.                                      *)
(***************************************************************************)
RECURSIVE GroupHooks(_)
\* The hooks of the groups of a Claude stop-hook list, in order.
GroupHooks(stop) ==
    IF stop = <<>> THEN <<>>
    ELSE Get(stop[1], "hooks", <<>>) \o GroupHooks(Tail(stop))

\* The hook entries of the tool's stop-hook list whose command does not hold
\* the hook command, in order.
OtherEntries(tool, settings) ==
    LET stop == StopHooks(tool, settings)
        key == IF tool = "claude" THEN "command"
               ELSE IF tool = "kiro" THEN "command" ELSE "bash"
    IN SelectSeq(IF tool = "claude" THEN GroupHooks(stop) ELSE stop,
                 LAMBDA h : ~Contains(HOOK_COMMAND, Get(h, key, <<>>)))

\* C38: unregister_hook removes nothing but entries of the hook command:
\* the other hook entries of the list are kept, in order, and so is every
\* other key of the settings and of settings["hooks"].
C38_UnregisterKeepsOtherEntries ==
    LastOp = "unregister" =>
        /\ OtherEntries(tl_tool, tl_settings) = OtherEntries(tl_tool, tl_prev)
        /\ \A k \in DOMAIN tl_prev \ {"hooks"} :
              k \in DOMAIN tl_settings /\ tl_settings[k] = tl_prev[k]
        /\ "hooks" \in DOMAIN tl_prev =>
              /\ "hooks" \in DOMAIN tl_settings
              /\ \A e \in DOMAIN tl_prev.hooks \ {EventKey(tl_tool)} :
                    e \in DOMAIN tl_settings.hooks
                    /\ tl_settings.hooks[e] = tl_prev.hooks[e]

(***************************************************************************)
(* The CLI (src/src/otel_hooks/cli.py): enable and doctor on the Claude    *)
(* settings file of a scope.  An environment key is its words, so that     *)
(* `"SECRET" in key` is Contains; the user answers a prompt for a key with *)
(* a value or with nothing.                                                *)
(***************************************************************************)
\* Most CLI commands run in a row.
MaxCmds == 2

Scopes == {"global", "project", "local"}
PROVIDERS == {"langfuse", "otlp"}

LANGFUSE_ENV_KEYS ==
    << <<"LANGFUSE", "PUBLIC", "KEY">>, <<"LANGFUSE", "SECRET", "KEY">>,
       <<"LANGFUSE", "BASE", "URL">> >>
OTLP_ENV_KEYS ==
    << <<"OTEL", "EXPORTER", "OTLP", "ENDPOINT">>, <<"OTEL", "EXPORTER", "OTLP", "HEADERS">> >>
DATADOG_ENV_KEYS == << <<"DD", "SERVICE">>, <<"DD", "ENV">> >>

env_keys_for_provider(prov) ==
    IF prov = "langfuse" THEN LANGFUSE_ENV_KEYS
    ELSE IF prov = "otlp" THEN OTLP_ENV_KEYS
    ELSE IF prov = "datadog" THEN DATADOG_ENV_KEYS
    ELSE <<>>

\* "SECRET" in key
IsSecret(key) == Contains(<<"SECRET">>, key)

RECURSIVE EnablePrompts(_, _, _, _)
\* The loop of cmd_enable over the provider's keys: a key that has no value
\* is asked for, unless it is a secret and the scope is the project; `typed`
\* is the keys the user answers with a value.
EnablePrompts(cfg, keys, scope, typed) ==
    IF keys = <<>> THEN cfg
    ELSE LET key == Head(keys)
             next == IF get_env(cfg, key) # "" THEN cfg
                     ELSE IF IsSecret(key) /\ scope = "project" THEN cfg
                     ELSE IF key \in typed THEN set_env(cfg, key, "typed")
                     ELSE cfg
         IN EnablePrompts(next, Tail(keys), scope, typed)

RECURSIVE DoctorPrompts(_, _, _, _, _)
\* The loop of cmd_doctor over the provider's keys: a key that had no value
\* when the settings were loaded is asked for.
DoctorPrompts(cfg, keys, env, scope, typed) ==
    IF keys = <<>> THEN cfg
    ELSE LET key == Head(keys)
             next == IF Get(env, key, "") # "" THEN cfg
                     ELSE IF key \in typed THEN set_env(cfg, key, "typed")
                     ELSE cfg
         IN DoctorPrompts(next, Tail(keys), env, scope, typed)

\* cmd_enable: what it saves for the settings it loaded.
cmd_enable(cfg, scope, prov, typed) ==
    LET c1 == register_hook("claude", cfg)
        c2 == set_env(c1, OTEL_HOOKS_PROVIDER, prov)
        c3 == set_env(c2, OTEL_HOOKS_ENABLED, "true")
    IN EnablePrompts(c3, env_keys_for_provider(prov), scope, typed)

\* The issues cmd_doctor finds: it goes on to fix when there is one.
DoctorFindsIssue(cfg, depMissing) ==
    LET prov == get_provider(cfg)
    IN \/ ~is_hook_registered("claude", cfg)
       \/ ~is_enabled(cfg)
       \/ prov = ""
       \/ prov # "" /\ depMissing
       \/ prov = "langfuse" /\ get_env(cfg, <<"LANGFUSE", "PUBLIC", "KEY">>) = ""
       \/ prov = "langfuse" /\ get_env(cfg, <<"LANGFUSE", "SECRET", "KEY">>) = ""
       \/ prov = "otlp" /\ get_env(cfg, <<"OTEL", "EXPORTER", "OTLP", "ENDPOINT">>) = ""

\* cmd_doctor: what it saves for the settings it loaded, which are left as
\* they are when it finds no issue or the user does not answer "y".
cmd_doctor(cfg, scope, depMissing, answer, chosen, typed) ==
    LET found == get_provider(cfg)
        env == Get(cfg, "env", EmptyDict)
        c1 == register_hook("claude", cfg)
        c2 == IF is_enabled(c1) THEN c1 ELSE set_env(c1, OTEL_HOOKS_ENABLED, "true")
        prov == IF found = "" THEN chosen ELSE found
        c3 == IF found = "" THEN set_env(c2, OTEL_HOOKS_PROVIDER, prov) ELSE c2
    IN IF ~DoctorFindsIssue(cfg, depMissing) \/ answer # "y" THEN cfg
       ELSE DoctorPrompts(c3, env_keys_for_provider(prov), env, scope, typed)

\* The project settings files the commands start from.
ProjectSettings ==
    {EmptyDict,
     [hooks |-> [Stop |-> <<NewItem("claude")>>]],
     set_env(EmptyDict, OTEL_HOOKS_PROVIDER, "langfuse"),
     set_env(EmptyDict, OTEL_HOOKS_PROVIDER, "otlp"),
     set_env(EmptyDict, OTEL_HOOKS_PROVIDER, "datadog"),
     set_env(set_env(EmptyDict, OTEL_HOOKS_PROVIDER, "langfuse"),
             <<"LANGFUSE", "SECRET", "KEY">>, "old")}

\* The keys a user may answer with a value.
TypedKeys ==
    SUBSET {<<"LANGFUSE", "PUBLIC", "KEY">>, <<"LANGFUSE", "SECRET", "KEY">>,
            <<"OTEL", "EXPORTER", "OTLP", "ENDPOINT">>}

\* The project's settings file as the commands find it.
CliStart(settings) ==
    /\ cl_pc = "idle"
    /\ cl_pc' = "ready"
    /\ cl_files' = [cl_files EXCEPT !["project"] = settings]
    /\ cl_start' = settings
    /\ UNCHANGED <<cl_cmds, ttVars, tlVars, exVars, skVars, rdVars, btVars, hookVars, svVars>>

\* otel-hooks enable: load_settings(scope) ... save_settings(cfg, scope)
CmdEnable(scope, prov, typed) ==
    /\ cl_files' = [cl_files EXCEPT ![scope] = cmd_enable(@, scope, prov, typed)]
    /\ cl_cmds' = Append(cl_cmds, "enable")
    /\ UNCHANGED <<cl_start, cl_pc, ttVars, tlVars, exVars, skVars, rdVars, btVars, hookVars, svVars>>

\* otel-hooks doctor
CmdDoctor(scope, depMissing, answer, chosen, typed) ==
    /\ cl_files' = [cl_files EXCEPT
                      ![scope] = cmd_doctor(@, scope, depMissing, answer, chosen, typed)]
    /\ cl_cmds' = Append(cl_cmds, "doctor")
    /\ UNCHANGED <<cl_start, cl_pc, ttVars, tlVars, exVars, skVars, rdVars, btVars, hookVars, svVars>>

CliNext ==
    \/ /\ cl_pc = "idle"
       /\ \E settings \in ProjectSettings : CliStart(settings)
    \/ /\ cl_pc = "ready" /\ Len(cl_cmds) < MaxCmds
       /\ \E scope \in Scopes, prov \in PROVIDERS, typed \in TypedKeys :
             CmdEnable(scope, prov, typed)
    \/ /\ cl_pc = "ready" /\ Len(cl_cmds) < MaxCmds
       /\ \E scope \in Scopes, depMissing \in BOOLEAN, answer \in {"y", "n"},
             chosen \in PROVIDERS, typed \in TypedKeys :
             CmdDoctor(scope, depMissing, answer, chosen, typed)

SpecCli == Init /\ [][CliNext]_vars

\* The secret keys that have a value in the env of a settings dict.
SecretsIn(settings) ==
    {key \in DOMAIN Get(settings, "env", EmptyDict) :
        IsSecret(key) /\ get_env(settings, key) # ""}

\* C39: whatever enable and doctor commands are run, the project settings
\* hold no value for a secret key that they did not hold at the start.
C39_NoSecretInProjectSettings ==
    SecretsIn(cl_files["project"]) \subseteq SecretsIn(cl_start)

\* C40: starting from empty settings, after any register_hook and
\* unregister_hook calls the settings hold the hook command at most once and
\* is_hook_registered is true exactly when the last call was register_hook;
\* and, whatever the settings, the Claude config's is_enabled is not true
\* while is_hook_registered is false.
C40_RegisteredIffLastRegister ==
    /\ (tl_tool # "none" /\ tl_start = EmptyDict) =>
          /\ Occurrences(tl_tool, tl_settings) <= 1
          /\ is_hook_registered(tl_tool, tl_settings) <=> (LastOp = "register")
    /\ (tl_tool = "claude" /\ is_enabled(tl_settings))
          => is_hook_registered(tl_tool, tl_settings)

\* From empty settings the hook was registered, unregistered and registered
\* again, and is there once.
C40_Witness ==
    /\ tl_tool = "claude"
    /\ tl_start = EmptyDict
    /\ tl_ops = <<"register", "unregister", "register">>
    /\ Occurrences(tl_tool, tl_settings) = 1
    /\ is_hook_registered(tl_tool, tl_settings)
    /\ ~is_enabled(tl_settings)

====
